---- MODULE Spec2Model ----
(***************************************************************************)
(* Album life cycle of the photo gallery: upload.sh (publish every pending *)
(* album, rebuild public/albums.json) and reset-album.sh (turn a published *)
(* album back into a raw one), run by one operator on one file tree.       *)
(*                                                                         *)
(* Strings are sequences of one-character strings, so that names can be    *)
(* built, cut and compared the way the scripts do it.                      *)
(***************************************************************************)
EXTENDS Integers, Sequences, FiniteSets, TLC

(***************************************************************************)
(* Bounds of the model.                                                    *)
(***************************************************************************)
\* number of image files the album a_b of the initial file tree may hold
MaxPhotos == 2

\* number of runs of the two scripts that get past their first checks
MaxRuns == 2

\* number of times the operator interrupts a running script
MaxInterrupts == 1

\* length of the names to_snake_case is called with on its own
MaxNameLen == 3

\* number of albums the albums.json served to the listing page may name
MaxAlbums == 3

(***************************************************************************)
(* Characters and strings.                                                 *)
(***************************************************************************)
UpperChars == <<"A","B","C","D","E","F","G","H","I","J","K","L","M",
                "N","O","P","Q","R","S","T","U","V","W","X","Y","Z">>
LowerChars == <<"a","b","c","d","e","f","g","h","i","j","k","l","m",
                "n","o","p","q","r","s","t","u","v","w","x","y","z">>
DigitChars == <<"0","1","2","3","4","5","6","7","8","9">>

\* the characters in byte order (glob sorts its matches)
Alphabet == <<"\n", " ", "!", ".">> \o DigitChars \o UpperChars \o <<"_">> \o LowerChars

Range(s) == {s[i] : i \in DOMAIN s}

Rank(c) == CHOOSE i \in DOMAIN Alphabet : Alphabet[i] = c

\* tr '[:upper:]' '[:lower:]' on one character
LowerChar(c) ==
    IF c \in Range(UpperChars)
    THEN LowerChars[CHOOSE i \in DOMAIN UpperChars : UpperChars[i] = c]
    ELSE c

\* tr '[:upper:]' '[:lower:]'
TrLower(s) == [i \in DOMAIN s |-> LowerChar(s[i])]

\* tr ' ' '_'
TrSpace(s) == [i \in DOMAIN s |-> IF s[i] = " " THEN "_" ELSE s[i]]

IsAlnumUnderscore(c) ==
    c \in Range(UpperChars) \cup Range(LowerChars) \cup Range(DigitChars) \cup {"_"}

\* tr -cd '[:alnum:]_'
TrDeleteComplement(s) == SelectSeq(s, IsAlnumUnderscore)

\* echo "$1" | tr '[:upper:]' '[:lower:]' | tr ' ' '_' | tr -cd '[:alnum:]_'
\* (echo appends a newline, which the last tr deletes)
to_snake_case(s) == TrDeleteComplement(TrSpace(TrLower(s \o <<"\n">>)))

\* the decimal digits of a positive number, as the shell expands ${index}
RECURSIVE Decimal(_)
Decimal(n) ==
    IF n < 10 THEN <<DigitChars[n + 1]>>
    ELSE Decimal(n \div 10) \o <<DigitChars[(n % 10) + 1]>>

\* byte-wise lexicographic order on strings
RECURSIVE StrLeq(_, _)
StrLeq(a, b) ==
    IF a = <<>> THEN TRUE
    ELSE IF b = <<>> THEN FALSE
    ELSE IF a[1] = b[1] THEN StrLeq(Tail(a), Tail(b))
    ELSE Rank(a[1]) < Rank(b[1])

\* the names of a set in glob order
RECURSIVE GlobOrder(_)
GlobOrder(S) ==
    IF S = {} THEN <<>>
    ELSE LET m == CHOOSE x \in S : \A y \in S : StrLeq(x, y)
         IN  <<m>> \o GlobOrder(S \ {m})

\* every order in which the names of a set can be enumerated
Enumerations(S) ==
    {s \in [1..Cardinality(S) -> S] : \A i, j \in 1..Cardinality(S) : s[i] = s[j] => i = j}

HasSuffix(s, suf) ==
    /\ Len(s) >= Len(suf)
    /\ SubSeq(s, Len(s) - Len(suf) + 1, Len(s)) = suf

\* a find that matches with -name instead of -iname
IsPhotoName_CaseSensitive(name) ==
    \/ HasSuffix(name, <<".","j","p","g">>)
    \/ HasSuffix(name, <<".","j","p","e","g">>)
    \/ HasSuffix(name, <<".","p","n","g">>)

\* find -iname "*.jpg" -o -iname "*.jpeg" -o -iname "*.png"
IsPhotoName(name) ==
    LET l == TrLower(name)
    IN  \/ HasSuffix(l, <<".","j","p","g">>)
        \/ HasSuffix(l, <<".","j","p","e","g">>)
        \/ HasSuffix(l, <<".","p","n","g">>)

\* ${photo##*.} : what follows the last dot
AfterLastDot(s) ==
    IF \E i \in DOMAIN s : s[i] = "."
    THEN SubSeq(s, (CHOOSE i \in DOMAIN s : s[i] = "." /\ \A j \in (i + 1)..Len(s) : s[j] # ".") + 1, Len(s))
    ELSE s

\* extension_lower
ExtensionLower(photo) == TrLower(AfterLastDot(photo))

\* base_name="${snake_album_name}_${index}"
BaseName(snake, index) == snake \o <<"_">> \o Decimal(index)

\* original_filename="${base_name}.${extension_lower}"
OriginalFilename(snake, index, ext) == BaseName(snake, index) \o <<".">> \o ext

\* webp_filename="${base_name}.webp"
WebpFilename(snake, index) == BaseName(snake, index) \o <<".","w","e","b","p">>

(***************************************************************************)
(* The file tree under public/albums.                                      *)
(*                                                                         *)
(* A directory of public/albums is a record                                *)
(*   root : the files directly inside it, file name -> bytes               *)
(*   data : <<>> when there is no data.json, else <<metadata>>             *)
(*   low  : <<>> when there is no low/, else <<file name -> bytes>> where  *)
(*          the bytes of a thumbnail are named by the bytes of the photo   *)
(*          ffmpeg scaled                                                  *)
(*   full : <<>> when there is no full/, else <<file name -> bytes>>       *)
(*   sub  : the other directories inside it, name -> directory             *)
(***************************************************************************)
NoFiles == <<>>

Put(f, n, c) == [x \in DOMAIN f \cup {n} |-> IF x = n THEN c ELSE f[x]]

Remove(f, n) == [x \in DOMAIN f \ {n} |-> f[x]]

\* [ -f "${album_dir}data.json" ]
HasData(d) == d.data # <<>>

\* [ -d "${album_path}low" ]
HasLow(d) == d.low # <<>>

\* [ -d "${album_path}/full" ]
HasFull(d) == d.full # <<>>

\* the two resting states of an album directory
IsRaw(d) == ~HasData(d) /\ ~HasLow(d) /\ ~HasFull(d)

IsPublished(d) == HasData(d) /\ HasLow(d) /\ HasFull(d)

\* the operator's inputs
Photographer == <<"p">>

Timestamps == {20240101}

\* display names the operator may type: "A b!" and "!"
DisplayNames == { <<"A"," ","b","!">>, <<"!">> }

\* directories the initial tree may hold: "New" and "a_b"
NewDir == <<"N","e","w">>

SnakeDir == <<"a","_","b">>

\* names reset-album.sh may be given: the directories that may exist and one
\* that never exists
ResetArguments == {NewDir, SnakeDir, <<"n","o","n","e">>}

PhotoExts == << <<"J","P","G">>, <<"j","p","g">>, <<"p","n","g">> >>

\* the k-th image file an operator drops into an album: p1.JPG, p2.jpg, p3.png, ...
PhotoFileName(k) == <<"p">> \o Decimal(k) \o <<".">> \o PhotoExts[((k - 1) % 3) + 1]

NotesFileName == <<"n","o","t","e","s",".","t","x","t">>

\* the bytes of the k-th file of the a-th album (0: the notes file)
Bytes(a, k) == 10 * a + k

\* what the operator may have put into the a-th album: n photos and maybe a
\* file that is no photo
RawFiles(a, n, notes) ==
    [x \in {PhotoFileName(k) : k \in 1..n} \cup (IF notes THEN {NotesFileName} ELSE {})
       |-> IF x = NotesFileName THEN Bytes(a, 0)
           ELSE Bytes(a, CHOOSE k \in 1..n : PhotoFileName(k) = x)]

RawDir(files) == [root |-> files, data |-> <<>>, low |-> <<>>, full |-> <<>>, sub |-> <<>>]

\* ${x%%:*} : what precedes the first colon
BeforeFirstColon(s) ==
    IF \E i \in DOMAIN s : s[i] = ":"
    THEN SubSeq(s, 1, (CHOOSE i \in DOMAIN s : s[i] = ":" /\ \A j \in 1..(i - 1) : s[j] # ":") - 1)
    ELSE s

\* ${x##*:} : what follows the last colon
AfterLastColon(s) ==
    IF \E i \in DOMAIN s : s[i] = ":"
    THEN SubSeq(s, (CHOOSE i \in DOMAIN s : s[i] = ":" /\ \A j \in (i + 1)..Len(s) : s[j] # ":") + 1, Len(s))
    ELSE s

\* the photos array of data.json, built from the "webp:ext" entries of photo_data
PhotosJson(photo_data) ==
    [i \in DOMAIN photo_data |->
        [webp |-> BeforeFirstColon(photo_data[i]), ext |-> AfterLastColon(photo_data[i])]]

\* the here-document of data.json
DataJson(album_name, photographer_name, timestamp, cover, photo_data) ==
    [written      |-> TRUE,
     name         |-> album_name,
     photographer |-> photographer_name,
     date         |-> timestamp,
     coverPhoto   |-> cover,
     photos       |-> PhotosJson(photo_data)]

\* data.json right after the redirection opened it: an empty file
EmptyDataJson ==
    [written |-> FALSE, name |-> <<>>, photographer |-> <<>>, date |-> 0,
     coverPhoto |-> <<>>, photos |-> <<>>]

\* photo_data built from $extension instead of $extension_lower
PhotoDatum_KeepCase(snake, index, photo) ==
    WebpFilename(snake, index) \o <<":">> \o AfterLastDot(photo)

\* the entry of photo_data for the photo at an index
PhotoDatum(snake, index, photo) ==
    WebpFilename(snake, index) \o <<":">> \o ExtensionLower(photo)

\* an album as an earlier upload.sh run left it: the photos src (file names)
\* of the a-th album published in that order under a display name
PublishedDir(a, display, src, rest) ==
    LET snake == to_snake_case(display)
        n     == Len(src)
    IN  [root |-> rest,
         data |-> << DataJson(display, Photographer, 20231231, WebpFilename(snake, 1),
                              [i \in 1..n |-> PhotoDatum(snake, i, src[i])]) >>,
         low  |-> << [x \in {WebpFilename(snake, i) : i \in 1..n}
                        |-> Bytes(a, CHOOSE i \in 1..n : WebpFilename(snake, i) = x)] >>,
         full |-> << [x \in {OriginalFilename(snake, i, ExtensionLower(src[i])) : i \in 1..n}
                        |-> Bytes(a, CHOOSE i \in 1..n :
                                 OriginalFilename(snake, i, ExtensionLower(src[i])) = x)] >>,
         sub  |-> <<>>]

\* the record kept of a publication: the photos in the order they were
\* numbered, the files that were no photos, whether the album was raw before,
\* whether the album still is as the publication left it
Publication(snake, names, bytes, rest, fromRaw, live) ==
    [snake |-> snake,
     fromRaw |-> fromRaw,
     src   |-> [i \in 1..Len(names) |-> [bytes |-> bytes[i], ext |-> ExtensionLower(names[i])]],
     rest  |-> rest,
     live  |-> live]

(***************************************************************************)
(* State.                                                                  *)
(***************************************************************************)
VARIABLES
    fs,                \* public/albums: directory name -> directory
    dirExists,         \* public/albums exists
    manifest,          \* public/albums.json: <<>> when absent, else <<album names>>
    ffmpegInstalled,   \* command -v ffmpeg succeeds
    arithErrexit,      \* this bash applies set -e to a (( )) command that yields 0
    pc,                \* where the running script stands, "idle" when none runs
    album_array,       \* upload.sh main: the pending albums
    loopIdx,           \* upload.sh main: position of the for loop in album_array
    album_path,        \* process_album: the directory being published
    album_name,        \* process_album: the display name the operator typed
    timestamp,         \* process_album: date -u
    photo_files,       \* process_album: the source files, as find listed them
    index,             \* process_album: 1-based index of the photo loop
    photo_data,        \* process_album: "webp:ext" per processed photo
    cover_photo_webp,  \* process_album: the cover that was drawn
    reset_name,        \* reset_album: the album being reset
    exitStatus,        \* exit status of the last run, -1 before any run
    report,            \* what the last run told the operator
    everFailed,        \* some run ended with a filesystem or tool failure or was interrupted
    command,           \* the command line of the running or last run
    before,            \* <<>>, or <<the album being published as it was when publish began>>
    pubPath,           \* where the album process_album just finished now lies
    prov,              \* album name -> the last publication that ended there
    resetProv,         \* the publication the running or last reset undoes
    runs,              \* runs that got past their first checks or asked the operator, so far
    interrupts,        \* interrupts so far
    confirm,           \* reset_album: the operator's last answer to its question, "" before any
    selection,         \* select_album: <<what the operator typed>>, <<>> when it did not ask
    snakeArg,          \* to_snake_case: its argument $1
    snakeOut,          \* to_snake_case: <<>> before the call, else <<what it printed>>
    served,            \* listing page: what the site answers to the page's fetches
    clientPc,          \* listing page: where initAlbumList stands
    results,           \* listing page: the album promises, in the order of manifest.albums
    settled,           \* listing page: the album promises in the order they settled
    albumsData,        \* listing page: the album data cache
    grid,              \* listing page: the cards of #album-grid
    errorShown,        \* listing page: displayError has been called
    albumFolder,       \* album page: the album parameter of the URL, <<>> when there is none
    dataJson,          \* album page: what the site answers to the fetch of data.json
    viewPc,            \* album page: where initAlbumView stands
    currentAlbum,      \* album-view.js: <<>> for null, else <<the parsed data.json>>
    albumPhotos,       \* album-view.js: the photo records loadPhotos built
    albumNameText,     \* album page: <<>>, or <<the text of #album-name>>
    photoGrid,         \* album page: the content of #photo-grid
    lightboxInitialised, \* album page: window.initLightboxWhenReady was called
    boxOpen,           \* lightbox: it is open
    activeSlide,       \* lightbox: the index of the slide it shows, 0 before any
    controls,          \* lightbox: the .download-share-controls containers of the document,
                       \* each the index of the slide it was built for
    frameCallbacks,    \* lightbox: the animation-frame callbacks that wait, in order
    nginxConf,         \* deploy.sh: /etc/nginx/nginx.conf, <<>> when absent, else <<content>>
    backups,           \* deploy.sh: the contents of /etc/nginx/nginx.conf.backup.*, oldest first
    nginxActive,       \* deploy.sh: systemctl is-active nginx
    loadedConf,        \* deploy.sh: the nginx.conf the running nginx has loaded, <<>> for none
    repoConf,          \* deploy.sh: $SCRIPT_DIR/nginx.conf of the running or last run
    ngPc,              \* deploy.sh: where the script stands
    ngExit,            \* deploy.sh: exit status of the last run, -1 before any
    confBefore,        \* deploy.sh: /etc/nginx/nginx.conf as the running or last run found it
    testVerdict,       \* deploy.sh: what nginx -t said in the running or last run
    serviceTouched,    \* deploy.sh: the running or last run reloaded or started nginx
    deployRuns         \* deploy.sh: runs so far

env == <<ffmpegInstalled, arithErrexit>>

uploadLocals == <<album_array, loopIdx, album_path, album_name, timestamp,
                  photo_files, index, photo_data, cover_photo_webp>>

counters == <<runs, interrupts>>

history == <<everFailed, before, pubPath, prov, resetProv>>

\* a call of to_snake_case on its own
snakeVars == <<snakeArg, snakeOut>>

\* the listing page
clientVars == <<served, clientPc, results, settled, albumsData, grid, errorShown>>

\* what the two scripts never touch
\* the album page
viewVars == <<albumFolder, dataJson, viewPc, currentAlbum, albumPhotos, albumNameText,
              photoGrid, lightboxInitialised>>

\* the lightbox of the album page
boxVars == <<boxOpen, activeSlide, controls, frameCallbacks>>

\* the deployment of the nginx configuration
nginxVars == <<nginxConf, backups, nginxActive, loadedConf, repoConf, ngPc, ngExit,
               confBefore, testVerdict, serviceTouched, deployRuns>>

\* the other pages and the server's script
others == <<viewVars, boxVars, nginxVars>>

elsewhere == <<snakeVars, clientVars, others>>

\* what the two scripts work on
scriptVars == <<fs, dirExists, manifest, env, pc, uploadLocals, reset_name,
                exitStatus, report, command, history, counters, confirm, selection>>

vars == <<fs, dirExists, manifest, env, pc, uploadLocals, reset_name,
          exitStatus, report, command, history, counters, confirm, selection, elsewhere>>

\* the bytes of photo_files at the time find listed them
srcBytes == [i \in DOMAIN photo_files |-> before[1].root[photo_files[i]]]

\* the album being published was raw when publish began
wasRaw == before # <<>> /\ IsRaw(before[1])

\* snake_album_name=$(to_snake_case "$album_name")
snake_album_name == to_snake_case(album_name)

(***************************************************************************)
(* Initial file trees: "New" absent or raw (a notes file and at most one    *)
(* photo), "a_b" absent, raw (photos only) or as an earlier run published  *)
(* it under the name "A b!".                                               *)
(***************************************************************************)
NewDirChoices ==
    { << [dir |-> RawDir(RawFiles(1, n, TRUE)), pub |-> <<>>] >> : n \in 0..1 }

SnakeDirRawChoices ==
    { << [dir |-> RawDir(RawFiles(2, n, FALSE)), pub |-> <<>>] >> : n \in 1..MaxPhotos }

SnakeDirPublishedChoices ==
    { LET names   == [k \in 1..n |-> PhotoFileName(k)]
          display == <<"A"," ","b","!">>
      IN  << [dir |-> PublishedDir(2, display, names, NoFiles),
              pub |-> << Publication(to_snake_case(display), names,
                                     [k \in 1..n |-> Bytes(2, k)], NoFiles, TRUE, TRUE) >>] >> :
        n \in 1..MaxPhotos }

InitialTree(a, b) ==
    [x \in (IF a = <<>> THEN {} ELSE {NewDir}) \cup (IF b = <<>> THEN {} ELSE {SnakeDir})
       |-> IF x = NewDir THEN a[1].dir ELSE b[1].dir]

\* the names generate_albums_manifest lists for a tree
PublishedNames(tree) == GlobOrder({n \in DOMAIN tree : HasData(tree[n])})

\* no script has run yet
ScriptsIdle ==
    /\ pc = "idle"
    /\ album_array = <<>>
    /\ loopIdx = 0
    /\ album_path = <<>>
    /\ album_name = <<>>
    /\ timestamp = 0
    /\ photo_files = <<>>
    /\ index = 0
    /\ photo_data = <<>>
    /\ cover_photo_webp = <<>>
    /\ reset_name = <<>>
    /\ confirm = ""
    /\ selection = <<>>
    /\ exitStatus = -1
    /\ report = "none"
    /\ everFailed = FALSE
    /\ command = <<>>
    /\ before = <<>>
    /\ pubPath = <<>>
    /\ resetProv = <<>>
    /\ runs = 0
    /\ interrupts = 0

\* to_snake_case is not being called
SnakeIdle ==
    /\ snakeArg = <<>>
    /\ snakeOut = <<>>

\* a site that serves nothing
NothingServed == [found |-> FALSE, albums |-> <<>>, data |-> <<>>]

\* the listing page as the browser has just loaded it
ClientStarts ==
    /\ clientPc = "start"
    /\ results = <<>>
    /\ settled = <<>>
    /\ albumsData = <<>>
    /\ grid = <<>>
    /\ errorShown = FALSE

\* no listing page is open
ClientIdle ==
    /\ served = NothingServed
    /\ ClientStarts

\* an answer of the site that is no answer
NoAnswer == [ok |-> FALSE, json |-> FALSE, name |-> <<>>, photos |-> <<>>]

\* the album page as the browser has just loaded it
ViewStarts ==
    /\ viewPc = "start"
    /\ currentAlbum = <<>>
    /\ albumPhotos = <<>>
    /\ albumNameText = <<>>
    /\ photoGrid = [error |-> FALSE, thumbnails |-> <<>>]
    /\ lightboxInitialised = FALSE

\* no album page is open
ViewIdle ==
    /\ albumFolder = <<>>
    /\ dataJson = NoAnswer
    /\ ViewStarts

\* the lightbox has not been opened
BoxIdle ==
    /\ boxOpen = FALSE
    /\ activeSlide = 0
    /\ controls = <<>>
    /\ frameCallbacks = <<>>

\* deploy.sh has not run yet
NginxStarts ==
    /\ loadedConf = <<>>
    /\ repoConf = <<>>
    /\ ngPc = "idle"
    /\ ngExit = -1
    /\ confBefore = <<>>
    /\ testVerdict = "none"
    /\ serviceTouched = FALSE
    /\ deployRuns = 0

\* a machine without nginx configuration, on which deploy.sh never runs
NginxIdle ==
    /\ nginxConf = <<>>
    /\ backups = <<>>
    /\ nginxActive = FALSE
    /\ NginxStarts

\* nothing else is going on
OthersIdle == ViewIdle /\ BoxIdle /\ NginxIdle

Init ==
    /\ ffmpegInstalled \in BOOLEAN
    /\ arithErrexit \in BOOLEAN
    /\ dirExists \in BOOLEAN
    /\ \E a \in {<<>>} \cup NewDirChoices,
          b \in {<<>>} \cup SnakeDirRawChoices \cup SnakeDirPublishedChoices :
          /\ fs = IF dirExists THEN InitialTree(a, b) ELSE <<>>
          /\ dirExists \/ (a = <<>> /\ b = <<>>)
          /\ prov = IF b # <<>> /\ b[1].pub # <<>> THEN [x \in {SnakeDir} |-> b[1].pub[1]]
                    ELSE <<>>
    /\ manifest = IF PublishedNames(fs) = <<>> THEN <<>> ELSE <<PublishedNames(fs)>>
    /\ ScriptsIdle
    /\ SnakeIdle
    /\ ClientIdle
    /\ OthersIdle

(***************************************************************************)
(* The end of a run: the script exits, its variables are gone.  failure    *)
(* tells a run that a failing command or an interrupt ended from one that  *)
(* ended by itself (done, skipped, refused or cancelled).                  *)
(***************************************************************************)
Leave(status, said, failure) ==
    /\ pc' = "idle"
    /\ exitStatus' = status
    /\ report' = said
    /\ everFailed' = (everFailed \/ failure)
    /\ album_array' = <<>>
    /\ loopIdx' = 0
    /\ album_path' = <<>>
    /\ album_name' = <<>>
    /\ timestamp' = 0
    /\ photo_files' = <<>>
    /\ index' = 0
    /\ photo_data' = <<>>
    /\ cover_photo_webp' = <<>>
    /\ reset_name' = <<>>
    /\ before' = <<>>
    /\ pubPath' = <<>>

\* a run that had started ends
Exit(status, said, failure) == Leave(status, said, failure) /\ UNCHANGED command

(***************************************************************************)
(* upload.sh                                                               *)
(***************************************************************************)
\* find_uninitialized_albums: the directories without data.json, in glob order
find_uninitialized_albums(tree) == GlobOrder({n \in DOMAIN tree : ~HasData(tree[n])})

\* a find without the -iname tests
SourceFiles_AnyFile(d) == DOMAIN d.root

\* find "$album_path" -maxdepth 1 -type f \( -iname ... \): the source files
SourceFiles(d) == {x \in DOMAIN d.root : IsPhotoName(x)}

\* mkdir -p "${album_path}low"; mkdir -p "${album_path}full"
MakeSubdirs(d) ==
    [d EXCEPT !.low  = IF @ = <<>> THEN <<NoFiles>> ELSE @,
              !.full = IF @ = <<>> THEN <<NoFiles>> ELSE @]

\* upload.sh starts without ffmpeg: check_ffmpeg exits
UploadNoFfmpeg ==
    /\ pc = "idle"
    /\ ~ffmpegInstalled
    /\ resetProv' = <<>>
    /\ command' = <<"upload">>
    /\ selection' = <<>>
    /\ Leave(1, "no_ffmpeg", FALSE)
    /\ UNCHANGED <<fs, dirExists, manifest, env, prov, counters, confirm, elsewhere>>

\* what main reads from find_uninitialized_albums: the pending albums, or,
\* when public/albums was missing and has just been made, the two messages
\* about it, which go to the same output
PendingLines(tree, exists) ==
    IF exists THEN find_uninitialized_albums(tree)
    ELSE << <<"[WARNING] Albums directory not found: public/albums">>,
            <<"[SUCCESS] Created albums directory">> >>

\* upload.sh starts, reads a line from find_uninitialized_albums, and
\* ((album_count++)) yields 0 under a bash that applies set -e to it
UploadArithExit ==
    /\ pc = "idle"
    /\ ffmpegInstalled
    /\ arithErrexit
    /\ PendingLines(fs, dirExists) # <<>>
    /\ dirExists' = TRUE
    /\ resetProv' = <<>>
    /\ command' = <<"upload">>
    /\ selection' = <<>>
    /\ Leave(1, "errexit", FALSE)
    /\ UNCHANGED <<fs, manifest, env, prov, counters, confirm, elsewhere>>

\* upload.sh starts: check_ffmpeg passes, the pending albums are collected
\* (the two messages about a missing public/albums are taken for albums, and
\* skipped at once, for no such directories exist)
StartUpload ==
    /\ pc = "idle"
    /\ ffmpegInstalled
    /\ PendingLines(fs, dirExists) # <<>> => ~arithErrexit
    /\ LET pending == find_uninitialized_albums(fs)
       IN  /\ album_array' = pending
           /\ loopIdx' = IF pending = <<>> THEN 0 ELSE 1
           /\ pc' = IF pending = <<>> THEN "up_manifest" ELSE "up_loop"
    /\ dirExists' = TRUE
    /\ resetProv' = <<>>
    /\ exitStatus' = -1
    /\ report' = "running"
    /\ runs < MaxRuns
    /\ runs' = runs + 1
    /\ command' = <<"upload">>
    /\ selection' = <<>>
    /\ UNCHANGED <<fs, manifest, env, album_path, album_name, timestamp, photo_files,
                   index, photo_data, cover_photo_webp, reset_name,
                   everFailed, before, pubPath, prov, interrupts, confirm, elsewhere>>

\* where main goes after process_album returned
AfterAlbum ==
    /\ loopIdx' = loopIdx + 1
    /\ pc' = IF loopIdx + 1 > Len(album_array) THEN "up_manifest" ELSE "up_loop"

\* process_album on an album without source files: "Skipping."
SkipEmptyAlbum ==
    /\ pc = "up_loop"
    /\ LET album == album_array[loopIdx]
       IN  /\ SourceFiles(fs[album]) = {}
           /\ \E name \in DisplayNames, t \in Timestamps :
                /\ album_path' = album
                /\ album_name' = name
                /\ timestamp' = t
    /\ AfterAlbum
    /\ photo_files' = <<>>
    /\ index' = 0
    /\ photo_data' = <<>>
    /\ cover_photo_webp' = <<>>
    /\ before' = <<>>
    /\ pubPath' = <<>>
    /\ report' = "skipped"
    /\ UNCHANGED <<fs, dirExists, manifest, env, album_array, reset_name, exitStatus,
                   command, everFailed, prov, resetProv, counters, confirm, selection, elsewhere>>

\* process_album up to the photo loop: the prompts, find, mkdir low and full
BeginAlbum ==
    /\ pc = "up_loop"
    /\ LET album == album_array[loopIdx]
       IN  /\ SourceFiles(fs[album]) # {}
           /\ \E name \in DisplayNames, t \in Timestamps,
                 listing \in Enumerations(SourceFiles(fs[album])) :
                /\ album_path' = album
                /\ album_name' = name
                /\ timestamp' = t
                /\ photo_files' = listing
           /\ before' = <<fs[album]>>
           /\ fs' = [fs EXCEPT ![album] = MakeSubdirs(@)]
    /\ index' = 1
    /\ photo_data' = <<>>
    /\ cover_photo_webp' = <<>>
    /\ pubPath' = <<>>
    /\ pc' = "up_cp"
    /\ report' = "running"
    /\ UNCHANGED <<dirExists, manifest, env, album_array, loopIdx, reset_name, exitStatus,
                   command, everFailed, prov, resetProv, counters, confirm, selection, elsewhere>>

\* the photo of the current index
photo == photo_files[index]

\* photo_data+=(...); cp "$photo" "${album_path}full/${original_filename}"
CopyOriginal ==
    /\ pc = "up_cp"
    /\ photo_data' = Append(photo_data, PhotoDatum(snake_album_name, index, photo))
    /\ fs' = [fs EXCEPT ![album_path].full =
                << Put(@[1], OriginalFilename(snake_album_name, index, ExtensionLower(photo)),
                       fs[album_path].root[photo]) >>]
    /\ pc' = "up_ffmpeg"
    /\ UNCHANGED <<dirExists, manifest, env, album_array, loopIdx, album_path, album_name,
                   timestamp, photo_files, index, cover_photo_webp, reset_name,
                   exitStatus, report, command, history, counters, confirm, selection, elsewhere>>

\* ffmpeg -i "$photo" ... "${album_path}low/${webp_filename}" -y
Thumbnail ==
    /\ pc = "up_ffmpeg"
    /\ fs' = [fs EXCEPT ![album_path].low =
                << Put(@[1], WebpFilename(snake_album_name, index), fs[album_path].root[photo]) >>]
    /\ pc' = "up_rm"
    /\ UNCHANGED <<dirExists, manifest, env, uploadLocals, reset_name,
                   exitStatus, report, command, history, counters, confirm, selection, elsewhere>>

\* ffmpeg fails in a script without set -e: the script goes on
ThumbnailFails_GoesOn ==
    /\ pc = "up_ffmpeg"
    /\ report' = "ffmpeg_failed"
    /\ pc' = "up_rm"
    /\ UNCHANGED <<fs, dirExists, manifest, env, uploadLocals, reset_name,
                   exitStatus, command, history, counters, confirm, selection, elsewhere>>

\* ffmpeg fails: set -e ends the run
ThumbnailFails ==
    /\ pc = "up_ffmpeg"
    /\ Exit(1, "ffmpeg_failed", TRUE)
    /\ UNCHANGED <<fs, dirExists, manifest, env, prov, resetProv, counters, confirm, selection, elsewhere>>

\* rm "$photo"; index=$((index + 1))
RemoveSource ==
    /\ pc = "up_rm"
    /\ fs' = [fs EXCEPT ![album_path].root = Remove(@, photo)]
    /\ index' = index + 1
    /\ pc' = IF index + 1 > Len(photo_files) THEN "up_cover" ELSE "up_cp"
    /\ UNCHANGED <<dirExists, manifest, env, album_array, loopIdx, album_path, album_name,
                   timestamp, photo_files, photo_data, cover_photo_webp, reset_name,
                   exitStatus, report, command, history, counters, confirm, selection, elsewhere>>

\* the cover is drawn, then the redirection of cat opens data.json
OpenDataJson ==
    /\ pc = "up_cover"
    /\ \E random_index \in 0..(Len(photo_data) - 1) :
         cover_photo_webp' = BeforeFirstColon(photo_data[random_index + 1])
    /\ fs' = [fs EXCEPT ![album_path].data = <<EmptyDataJson>>]
    /\ pc' = "up_cat"
    /\ UNCHANGED <<dirExists, manifest, env, album_array, loopIdx, album_path, album_name,
                   timestamp, photo_files, index, photo_data, reset_name,
                   exitStatus, report, command, history, counters, confirm, selection, elsewhere>>

\* cat writes the here-document into data.json
WriteDataJson ==
    /\ pc = "up_cat"
    /\ fs' = [fs EXCEPT ![album_path].data =
                << DataJson(album_name, Photographer, timestamp, cover_photo_webp, photo_data) >>]
    /\ pc' = "up_rename"
    /\ UNCHANGED <<dirExists, manifest, env, uploadLocals, reset_name,
                   exitStatus, report, command, history, counters, confirm, selection, elsewhere>>

\* a directory with nothing in it
IsEmptyDir(d) == d = RawDir(NoFiles)

\* a mv that puts the directory in the place of whatever is called to
MvAlbum_Replaces(tree, from, to) ==
    IF to = <<>> THEN [ok |-> FALSE, tree |-> tree, path |-> <<>>]
    ELSE [ok   |-> TRUE,
          tree |-> [x \in (DOMAIN tree \ {from}) \cup {to} |->
                       IF x = to THEN tree[from] ELSE tree[x]],
          path |-> <<to>>]

\* mv "$album_path" "$new_album_path" for the directory from and the name to:
\* a rename when nothing is called to; a move INTO the directory called to
\* when there is one; a failure when the target is public/albums itself (to
\* is empty) or when the directory called to already holds an entry called
\* from that mv cannot replace
MvAlbum(tree, from, to) ==
    IF to = <<>> THEN [ok |-> FALSE, tree |-> tree, path |-> <<>>]
    ELSE IF to \notin DOMAIN tree
    THEN [ok   |-> TRUE,
          tree |-> [x \in (DOMAIN tree \ {from}) \cup {to} |->
                       IF x = to THEN tree[from] ELSE tree[x]],
          path |-> <<to>>]
    ELSE IF \/ from \in DOMAIN tree[to].root
            \/ (from \in DOMAIN tree[to].sub /\ ~IsEmptyDir(tree[to].sub[from]))
    THEN [ok |-> FALSE, tree |-> tree, path |-> <<>>]
    ELSE [ok   |-> TRUE,
          tree |-> [x \in DOMAIN tree \ {from} |->
                       IF x = to THEN [tree[to] EXCEPT !.sub = Put(@, from, tree[from])]
                       ELSE tree[x]],
          path |-> <<to, from>>]

\* the rename step of process_album: nothing to do when the directory already
\* has the snake_case name
RenameStep(tree, from, to) ==
    IF from = to THEN [ok |-> TRUE, tree |-> tree, path |-> <<to>>]
    ELSE MvAlbum(tree, from, to)

\* the directory a path of one or two names leads to
DirAt(tree, path) ==
    IF Len(path) = 1 THEN tree[path[1]] ELSE tree[path[1]].sub[path[2]]

\* process_album after data.json: the directory is renamed, process_album returns
RenameAlbum ==
    /\ pc = "up_rename"
    /\ LET r == RenameStep(fs, album_path, snake_album_name)
       IN  /\ r.ok
           /\ fs' = r.tree
           /\ pubPath' = r.path
           /\ prov' = IF Len(r.path) = 1
                      THEN Put(prov, snake_album_name,
                               Publication(snake_album_name, photo_files, srcBytes,
                                           fs[album_path].root, wasRaw, TRUE))
                      ELSE prov
    /\ AfterAlbum
    /\ report' = "processed"
    /\ UNCHANGED <<dirExists, manifest, env, album_array, album_path, album_name, timestamp,
                   photo_files, index, photo_data, cover_photo_webp, reset_name,
                   exitStatus, command, everFailed, before, resetProv, counters, confirm, selection, elsewhere>>

\* mv fails: set -e ends the run
RenameFails ==
    /\ pc = "up_rename"
    /\ ~RenameStep(fs, album_path, snake_album_name).ok
    /\ Exit(1, "mv_failed", TRUE)
    /\ UNCHANGED <<fs, dirExists, manifest, env, prov, resetProv, counters, confirm, selection, elsewhere>>

\* a scan without the data.json test
generate_albums_manifest_AllDirs(tree) == <<GlobOrder(DOMAIN tree)>>

\* a manifest that is added to what albums.json holds instead of replacing it
generate_albums_manifest_Appends(tree) ==
    <<(IF manifest = <<>> THEN <<>> ELSE manifest[1]) \o PublishedNames(tree)>>

\* generate_albums_manifest: public/albums.json is rewritten from a scan
generate_albums_manifest(tree) == <<PublishedNames(tree)>>

GenerateManifest ==
    /\ pc = "up_manifest"
    /\ manifest' = IF dirExists THEN generate_albums_manifest(fs) ELSE manifest
    /\ pc' = "up_deploy"
    /\ pubPath' = <<>>
    /\ UNCHANGED <<fs, dirExists, env, uploadLocals, reset_name, exitStatus, report,
                   command, everFailed, before, prov, resetProv, counters, confirm, selection, elsewhere>>

\* deploy_to_nginx, deploy_to_git, deploy_to_firebase went through (each done
\* or declined): the run reaches its end
Deploy ==
    /\ pc = "up_deploy"
    /\ Exit(0, "upload_done", FALSE)
    /\ UNCHANGED <<fs, dirExists, manifest, env, prov, resetProv, counters, confirm, selection, elsewhere>>

\* the operator interrupts the running script between two of its steps
Interrupt ==
    /\ pc # "idle"
    /\ interrupts < MaxInterrupts
    /\ interrupts' = interrupts + 1
    /\ Exit(130, "interrupted", TRUE)
    /\ UNCHANGED <<fs, dirExists, manifest, env, prov, resetProv, runs, confirm, selection, elsewhere>>

(***************************************************************************)
(* reset-album.sh [album-name]                                             *)
(***************************************************************************)
\* the checks without the one for full/
ResetCheck_NoFullCheck(tree, exists, name) ==
    IF ~exists \/ name \notin DOMAIN tree THEN "not_found"
    ELSE IF ~HasData(tree[name]) THEN "already_raw"
    ELSE "ask"

\* the checks with full/ looked at before data.json
ResetCheck_FullFirst(tree, exists, name) ==
    IF ~exists \/ name \notin DOMAIN tree THEN "not_found"
    ELSE IF ~HasFull(tree[name]) THEN "missing_full"
    ELSE IF ~HasData(tree[name]) THEN "already_raw"
    ELSE "ask"

\* reset_album's checks before it asks: the album directory, data.json, full/
ResetCheck(tree, exists, name) ==
    IF ~exists \/ name \notin DOMAIN tree THEN "not_found"
    ELSE IF ~HasData(tree[name]) THEN "already_raw"
    ELSE IF ~HasFull(tree[name]) THEN "missing_full"
    ELSE "ask"

\* the run ends in reset_album's checks
ResetEnds(name, status, said) ==
    /\ command' = <<"reset", name>>
    /\ selection' = <<>>
    /\ resetProv' = <<>>
    /\ Leave(status, said, FALSE)
    /\ UNCHANGED <<fs, dirExists, manifest, env, prov, counters, confirm, elsewhere>>

\* [ ! -d "$album_path" ]: "Album not found", exit 1
ResetNotFound ==
    \E name \in ResetArguments :
        /\ pc = "idle"
        /\ ResetCheck(fs, dirExists, name) = "not_found"
        /\ ResetEnds(name, 1, "not_found")

\* [ ! -f data.json ]: "Album is already in original state", exit 0
ResetAlreadyRaw ==
    \E name \in ResetArguments :
        /\ pc = "idle"
        /\ ResetCheck(fs, dirExists, name) = "already_raw"
        /\ ResetEnds(name, 0, "already_raw")

\* [ ! -d full ]: "No /full directory found. Album may be corrupted.", exit 1
ResetMissingFull ==
    \E name \in ResetArguments :
        /\ pc = "idle"
        /\ ResetCheck(fs, dirExists, name) = "missing_full"
        /\ ResetEnds(name, 1, "missing_full")

\* what list_albums prints, split into words: the directory names, or the
\* words of its complaint when public/albums is missing (its exit 1 ends
\* only the command substitution, and local hides the status)
list_albums(tree, exists) ==
    IF exists THEN GlobOrder(DOMAIN tree)
    ELSE << <<"[ERROR]">>, <<"Albums">>, <<"directory">>, <<"not">>, <<"found:">>,
            <<"public/albums">> >>

\* printf "  %2d) %s\n" for the entries from the i-th on
RECURSIVE ListingLines(_, _)
ListingLines(albums, i) ==
    IF i > Len(albums) THEN <<>>
    ELSE <<" ", " ">> \o (IF i < 10 THEN <<" ">> ELSE <<>>) \o Decimal(i)
         \o <<")", " ">> \o albums[i] \o <<"\n">> \o ListingLines(albums, i + 1)

\* [[ "$selection" =~ ^[0-9]+$ ]]
IsNumber(typed) == typed # <<>> /\ \A c \in Range(typed) : c \in Range(DigitChars)

\* the value bash gives a string of digits
RECURSIVE NumberValue(_)
NumberValue(typed) ==
    IF typed = <<>> THEN 0
    ELSE 10 * NumberValue(SubSeq(typed, 1, Len(typed) - 1))
         + (CHOOSE d \in 0..9 : Decimal(d) = <<typed[Len(typed)]>>)

\* what the operator may type at "Enter album number or name: "
Selections == { <<"1">>, <<"2">>, <<"9">>, SnakeDir }

\* select_album: its exit status and everything it writes to its output,
\* trailing newlines dropped as $( ) drops them
select_album(tree, exists, typed) ==
    LET albums == list_albums(tree, exists)
        album_count == Len(albums)
        listing == <<"\n", "[INFO] Available albums:", "\n", "\n">>
                   \o ListingLines(albums, 1) \o <<"\n">>
        idx == NumberValue(typed) - 1
    IN  IF album_count = 0
        THEN [status |-> 1, out |-> <<"[ERROR] No albums found in public/albums">>]
        ELSE IF IsNumber(typed)
        THEN IF idx >= 0 /\ idx < album_count
             THEN [status |-> 0, out |-> listing \o albums[idx + 1]]
             ELSE [status |-> 1, out |-> listing \o <<"[ERROR] Invalid selection">>]
        ELSE [status |-> 0, out |-> listing \o typed]

\* reset-album.sh without an argument, and select_album exits 1: so does the
\* assignment album_name=$(select_album), and the script under set -e
ResetSelectFails ==
    /\ pc = "idle"
    /\ runs < MaxRuns
    /\ \E typed \in Selections :
        LET sel == select_album(fs, dirExists, typed)
        IN  /\ sel.status = 1
            /\ command' = <<"reset">>
            /\ selection' = <<typed>>
            /\ resetProv' = <<>>
            /\ runs' = runs + 1
            /\ Leave(1, IF list_albums(fs, dirExists) = <<>> THEN "no_albums"
                         ELSE "invalid_selection", FALSE)
            /\ UNCHANGED <<fs, dirExists, manifest, env, prov, interrupts, confirm, elsewhere>>

\* reset-album.sh without an argument, and select_album returns: album_name
\* is all it wrote, the listing and then the name, and reset_album finds no
\* directory of that name.  (The other outcomes of reset_album's checks need
\* a directory whose name is this text, which lists that name and is longer.)
ResetSelected ==
    /\ pc = "idle"
    /\ runs < MaxRuns
    /\ \E typed \in Selections :
        LET sel == select_album(fs, dirExists, typed)
        IN  /\ sel.status = 0
            /\ ResetCheck(fs, dirExists, sel.out) = "not_found"
            /\ command' = <<"reset">>
            /\ selection' = <<typed>>
            /\ resetProv' = <<>>
            /\ runs' = runs + 1
            /\ Leave(1, "not_found", FALSE)
            /\ UNCHANGED <<fs, dirExists, manifest, env, prov, interrupts, confirm, elsewhere>>

\* the checks pass: the operator is asked to confirm
StartReset ==
    \E name \in ResetArguments :
        /\ pc = "idle"
        /\ ResetCheck(fs, dirExists, name) = "ask"
        /\ reset_name' = name
        /\ command' = <<"reset", name>>
        /\ selection' = <<>>
        /\ pc' = "rs_confirm"
        /\ exitStatus' = -1
        /\ report' = "running"
        /\ resetProv' = <<>>
        /\ runs < MaxRuns
        /\ runs' = runs + 1
        /\ confirm' = ""
        /\ UNCHANGED <<fs, dirExists, manifest, env, uploadLocals,
                       everFailed, before, pubPath, prov, interrupts, elsewhere>>

\* what the operator may type at the prompt of read -p
Answers == {"y", "Y", "n", "yes", ""}

\* a test that takes every answer for a yes
Confirmed_AnyAnswer(answer) == answer \in Answers

\* the negation of [ "$confirm" != "y" ] && [ "$confirm" != "Y" ]
Confirmed(answer) == ~(answer # "y" /\ answer # "Y")

\* the operator answers y or Y: reset_album goes on
ConfirmReset ==
    /\ pc = "rs_confirm"
    /\ \E answer \in Answers :
         /\ Confirmed(answer)
         /\ confirm' = answer
    /\ pc' = "rs_mv"
    /\ resetProv' = IF reset_name \in DOMAIN prov /\ prov[reset_name].live
                    THEN <<prov[reset_name]>> ELSE <<>>
    /\ UNCHANGED <<fs, dirExists, manifest, env, uploadLocals, reset_name, exitStatus,
                   report, command, everFailed, before, pubPath, prov, counters, selection, elsewhere>>

\* any other answer: "Reset cancelled", exit 0
CancelReset ==
    /\ pc = "rs_confirm"
    /\ \E answer \in Answers :
         /\ ~Confirmed(answer)
         /\ confirm' = answer
    /\ Exit(0, "cancelled", FALSE)
    /\ UNCHANGED <<fs, dirExists, manifest, env, prov, resetProv, counters, selection, elsewhere>>

\* the files of full/, none when there is no full/
FullFiles(d) == IF d.full = <<>> THEN NoFiles ELSE d.full[1]

\* a move that replaces the album root by the files of full/
MoveFullToRoot_DropsRoot(d) == [d EXCEPT !.root = FullFiles(d), !.full = <<NoFiles>>]

\* mv "${album_path}/full"/* "${album_path}/": every entry of full/ goes to
\* the album root, replacing a file of the same name
MoveFullToRoot(d) ==
    [d EXCEPT !.root = [x \in DOMAIN d.root \cup DOMAIN FullFiles(d) |->
                           IF x \in DOMAIN FullFiles(d) THEN FullFiles(d)[x] ELSE d.root[x]],
              !.full = <<NoFiles>>]

\* a reset that leaves low/ in place
RemoveLow_Keeps(d) == d

\* if [ -d low ]; then rm -rf "${album_path}/low"
RemoveLow(d) == [d EXCEPT !.low = <<>>]

\* rm -rf "${album_path}/full"
RemoveFull(d) == [d EXCEPT !.full = <<>>]

\* if [ -f data.json ]; then rm "${album_path}/data.json"
RemoveDataJson(d) == [d EXCEPT !.data = <<>>]

MovePhotos ==
    /\ pc = "rs_mv"
    /\ DOMAIN FullFiles(fs[reset_name]) # {}
    /\ fs' = [fs EXCEPT ![reset_name] = MoveFullToRoot(@)]
    /\ prov' = IF reset_name \in DOMAIN prov
               THEN [prov EXCEPT ![reset_name].live = FALSE] ELSE prov
    /\ pc' = "rs_rmlow"
    /\ UNCHANGED <<dirExists, manifest, env, uploadLocals, reset_name, exitStatus,
                   report, command, everFailed, before, pubPath, resetProv, counters, confirm, selection, elsewhere>>

\* the glob full/* matches nothing and stays as it is: mv fails, set -e ends the run
MovePhotosFails ==
    /\ pc = "rs_mv"
    /\ DOMAIN FullFiles(fs[reset_name]) = {}
    /\ Exit(1, "mv_failed", TRUE)
    /\ UNCHANGED <<fs, dirExists, manifest, env, prov, resetProv, counters, confirm, selection, elsewhere>>

DeleteLow ==
    /\ pc = "rs_rmlow"
    /\ fs' = [fs EXCEPT ![reset_name] = RemoveLow(@)]
    /\ pc' = "rs_rmfull"
    /\ UNCHANGED <<dirExists, manifest, env, uploadLocals, reset_name, exitStatus,
                   report, command, history, counters, confirm, selection, elsewhere>>

DeleteFull ==
    /\ pc = "rs_rmfull"
    /\ fs' = [fs EXCEPT ![reset_name] = RemoveFull(@)]
    /\ pc' = "rs_rmdata"
    /\ UNCHANGED <<dirExists, manifest, env, uploadLocals, reset_name, exitStatus,
                   report, command, history, counters, confirm, selection, elsewhere>>

\* data.json is removed; reset_album returns, main ends
DeleteData ==
    /\ pc = "rs_rmdata"
    /\ fs' = [fs EXCEPT ![reset_name] = RemoveDataJson(@)]
    /\ Exit(0, "reset_done", FALSE)
    /\ UNCHANGED <<dirExists, manifest, env, prov, resetProv, counters, confirm, selection, elsewhere>>

(***************************************************************************)
(* The specification of the two scripts.                                   *)
(***************************************************************************)
Next ==
    \/ UploadNoFfmpeg
    \/ UploadArithExit
    \/ StartUpload
    \/ SkipEmptyAlbum
    \/ BeginAlbum
    \/ CopyOriginal
    \/ Thumbnail
    \/ ThumbnailFails
    \/ RemoveSource
    \/ OpenDataJson
    \/ WriteDataJson
    \/ RenameAlbum
    \/ RenameFails
    \/ GenerateManifest
    \/ Deploy
    \/ Interrupt
    \/ ResetSelectFails
    \/ ResetSelected
    \/ ResetNotFound
    \/ ResetAlreadyRaw
    \/ ResetMissingFull
    \/ StartReset
    \/ ConfirmReset
    \/ CancelReset
    \/ MovePhotos
    \/ MovePhotosFails
    \/ DeleteLow
    \/ DeleteFull
    \/ DeleteData

Spec == Init /\ [][Next]_vars

(***************************************************************************)
(* to_snake_case on its own: called once with any name the operator can    *)
(* type at the prompt, made of a letter in each case, a digit, a space, a  *)
(* tab and a punctuation mark.                                             *)
(***************************************************************************)
NameChars == {"A", "b", "2", " ", "\t", "!"}

\* the strings up to a length over a set of characters
Strings(chars, n) == UNION {[1..k -> chars] : k \in 0..n}

\* no file tree and no script at work
NoSite ==
    /\ fs = <<>>
    /\ dirExists = FALSE
    /\ manifest = <<>>
    /\ ffmpegInstalled = FALSE
    /\ arithErrexit = FALSE
    /\ prov = <<>>
    /\ ScriptsIdle

SnakeInit ==
    /\ snakeArg \in Strings(NameChars, MaxNameLen)
    /\ snakeOut = <<>>
    /\ NoSite
    /\ ClientIdle
    /\ OthersIdle

\* snake_album_name=$(to_snake_case "$album_name")
CallSnakeCase ==
    /\ snakeOut = <<>>
    /\ snakeOut' = <<to_snake_case(snakeArg)>>
    /\ UNCHANGED <<snakeArg, scriptVars, clientVars, others>>

SnakeNext == CallSnakeCase

SnakeSpec == SnakeInit /\ [][SnakeNext]_vars

(***************************************************************************)
(* The listing page: initAlbumList fetches albums.json, then the metadata  *)
(* of every album it names, all at once, and renders the album grid.       *)
(*                                                                         *)
(* The site is a record                                                    *)
(*   found  : albums.json is there                                         *)
(*   albums : the names albums.json lists                                  *)
(*   data   : album name -> the answer to the fetch of its metadata, a     *)
(*            record of ok (the status is 2xx), json (the body parses) and *)
(*            date (the date of the album, <<year, month, day>>)           *)
(***************************************************************************)
\* the name of the i-th album: a1, a2, ...
FolderName(i) == <<"a">> \o Decimal(i)

Dates == { <<2024, 1, 31>>, <<2024, 2, 1>> }

NoDate == <<0, 0, 0>>

\* the answers to the fetch of an album's metadata: an HTTP error, a body
\* that is no JSON, the metadata of an album
FetchOutcomes ==
    { [ok |-> FALSE, json |-> FALSE, date |-> NoDate],
      [ok |-> TRUE,  json |-> FALSE, date |-> NoDate] }
    \cup { [ok |-> TRUE, json |-> TRUE, date |-> d] : d \in Dates }

\* the sites the page may be opened on: without albums.json, or with one
\* that names up to MaxAlbums albums
ServedChoices ==
    {NothingServed}
    \cup UNION { { [found |-> TRUE, albums |-> [i \in 1..n |-> FolderName(i)], data |-> d] :
                    d \in [{FolderName(i) : i \in 1..n} -> FetchOutcomes] } : n \in 0..MaxAlbums }

ClientInit ==
    /\ served \in ServedChoices
    /\ ClientStarts
    /\ NoSite
    /\ SnakeIdle
    /\ OthersIdle

\* new Date(date) as a number: later dates give greater numbers
DateValue(date) == (date[1] * 12 + (date[2] - 1)) * 31 + date[3]

\* the promise of one album: null after an HTTP error or a body that does not
\* parse, else the album data with folderName added
albumPromise(albumName, response) ==
    IF ~response.ok THEN <<>>
    ELSE IF ~response.json THEN <<>>
    ELSE << [date |-> response.date, folderName |-> albumName] >>

\* a Promise.all that hands out the values in the order the promises settled
PromiseAll_SettleOrder(promises, order) == [k \in DOMAIN order |-> promises[order[k]].value]

\* Promise.all: the values in the order of the promises
PromiseAll(promises, order) == [i \in DOMAIN promises |-> promises[i].value]

\* results.filter(album => album !== null)
FilterLoaded(values) ==
    LET kept == SelectSeq(values, LAMBDA v : v # <<>>)
    IN  [i \in DOMAIN kept |-> kept[i][1]]

\* a comparator that puts the oldest first
compareDates_OldestFirst(a, b) == DateValue(a.date) - DateValue(b.date)

\* (a, b) => new Date(b.date) - new Date(a.date)
compareDates(a, b) == DateValue(b.date) - DateValue(a.date)

\* one element put into a sorted sequence, behind the elements it does not
\* have to precede
RECURSIVE InsertAlbum(_, _)
InsertAlbum(sorted, x) ==
    IF sorted = <<>> THEN <<x>>
    ELSE IF compareDates(sorted[1], x) > 0 THEN <<x>> \o sorted
    ELSE <<sorted[1]>> \o InsertAlbum(Tail(sorted), x)

\* albumsData.sort(...): a stable sort
RECURSIVE SortAlbums(_)
SortAlbums(albums) ==
    IF albums = <<>> THEN <<>>
    ELSE InsertAlbum(SortAlbums(SubSeq(albums, 1, Len(albums) - 1)), albums[Len(albums)])

\* fetch('albums.json') answers with an error status: loadAlbums throws,
\* initAlbumList catches and calls displayError
FetchManifestFails ==
    /\ clientPc = "start"
    /\ ~served.found
    /\ clientPc' = "failed"
    /\ errorShown' = TRUE
    /\ UNCHANGED <<served, results, settled, albumsData, grid, scriptVars, snakeVars, others>>

\* albums.json is there: manifest.albums.map starts one fetch per album
FetchManifest ==
    /\ clientPc = "start"
    /\ served.found
    /\ results' = [i \in DOMAIN served.albums |-> [done |-> FALSE, value |-> <<>>]]
    /\ clientPc' = "fetching"
    /\ UNCHANGED <<served, settled, albumsData, grid, errorShown, scriptVars, snakeVars, others>>

\* the fetch of one album is answered and its promise settles
AlbumFetchSettles ==
    /\ clientPc = "fetching"
    /\ \E i \in DOMAIN results :
         /\ ~results[i].done
         /\ results' = [results EXCEPT ![i] =
                           [done  |-> TRUE,
                            value |-> albumPromise(served.albums[i], served.data[served.albums[i]])]]
         /\ settled' = Append(settled, i)
    /\ UNCHANGED <<served, clientPc, albumsData, grid, errorShown, scriptVars, snakeVars, others>>

\* every promise has settled: Promise.all resolves, the loaded albums are
\* kept and sorted, loadAlbums returns
AllSettled ==
    /\ clientPc = "fetching"
    /\ \A i \in DOMAIN results : results[i].done
    /\ albumsData' = SortAlbums(FilterLoaded(PromiseAll(results, settled)))
    /\ clientPc' = "loaded"
    /\ UNCHANGED <<served, results, settled, grid, errorShown, scriptVars, snakeVars, others>>

\* renderAlbumGrid: one card per album of albumsData
renderAlbumGrid ==
    /\ clientPc = "loaded"
    /\ grid' = [i \in DOMAIN albumsData |-> albumsData[i].folderName]
    /\ clientPc' = "rendered"
    /\ UNCHANGED <<served, results, settled, albumsData, errorShown, scriptVars, snakeVars, others>>

ClientNext ==
    \/ FetchManifestFails
    \/ FetchManifest
    \/ AlbumFetchSettles
    \/ AllSettled
    \/ renderAlbumGrid

ClientSpec == ClientInit /\ [][ClientNext]_vars

(***************************************************************************)
(* The album page: initAlbumView reads the album parameter, fetches the    *)
(* album's data.json, builds the photo records and renders the header and  *)
(* the photo grid.  The site's answer is a record                          *)
(*   ok     : the HTTP status is a success                                 *)
(*   json   : the body parses                                              *)
(*   name   : the name of the data.json                                    *)
(*   photos : <<>> when the data.json has no photos, else <<its photos>>   *)
(* A photo of a data.json is a record                                      *)
(*   object : it is an object (else a string)                              *)
(*   webp   : <<>> for an object without webp, else <<the webp name>>; for *)
(*            a string, <<the string>>                                     *)
(*   ext    : the ext of an object                                         *)
(***************************************************************************)
MaxViewPhotos == 2

ViewFolders == { <<"a","_","b">> }

DotWebp == <<".","w","e","b","p">>

ViewWebpNames == { <<"a","_","b","_","1">> \o DotWebp, <<"a","_","b","_","2">> \o DotWebp }

\* the photos a data.json may list: what upload.sh writes, the bare file
\* names of older albums, and an object that lacks its webp
ViewPhotoRecords ==
    { [object |-> TRUE, webp |-> <<w>>, ext |-> e] :
        w \in ViewWebpNames, e \in { <<"j","p","g">>, <<"w","e","b","p">> } }
    \cup { [object |-> FALSE, webp |-> <<w>>, ext |-> <<>>] : w \in ViewWebpNames }
    \cup { [object |-> TRUE, webp |-> <<>>, ext |-> <<"p","n","g">>] }

RECURSIVE PhotoLists(_)
PhotoLists(n) ==
    IF n = 0 THEN { <<>> }
    ELSE PhotoLists(n - 1)
         \cup { Append(l, r) : l \in {x \in PhotoLists(n - 1) : Len(x) = n - 1},
                               r \in ViewPhotoRecords }

ViewAnswers ==
    { NoAnswer, [NoAnswer EXCEPT !.ok = TRUE] }
    \cup { [ok |-> TRUE, json |-> TRUE, name |-> <<"A"," ","b">>, photos |-> p] :
             p \in { <<>> } \cup { <<l>> : l \in PhotoLists(MaxViewPhotos) } }

ViewInit ==
    /\ albumFolder \in { <<>> } \cup { <<f>> : f \in ViewFolders }
    /\ dataJson \in ViewAnswers
    /\ albumFolder = <<>> => dataJson = NoAnswer
    /\ ViewStarts
    /\ NoSite
    /\ SnakeIdle
    /\ ClientIdle
    /\ BoxIdle
    /\ NginxIdle

\* String.prototype.replace with a string pattern: the first occurrence
ReplaceFirst(s, pattern, replacement) ==
    LET at == {i \in 1..(Len(s) - Len(pattern) + 1) :
                  SubSeq(s, i, i + Len(pattern) - 1) = pattern}
    IN  IF at = {} THEN s
        ELSE LET i == CHOOSE i \in at : \A j \in at : i <= j
             IN  SubSeq(s, 1, i - 1) \o replacement \o SubSeq(s, i + Len(pattern), Len(s))

\* `albums/${albumFolder}/${dir}/${file}`
PhotoUrl(folder, dir, file) ==
    <<"a","l","b","u","m","s","/">> \o folder \o <<"/">> \o dir \o <<"/">> \o file

LowDir == <<"l","o","w">>

FullDir == <<"f","u","l","l">>

\* typeof photo === 'object' && photo.webp
IsStructured(p) == p.object /\ p.webp # <<>> /\ p.webp[1] # <<>>

\* ${photo} for a photo that is not taken for structured
PhotoString(p) == IF p.object THEN <<"[object Object]">> ELSE p.webp[1]

\* the record with the original looked up under the webp name
structuredPhoto_KeepsWebp(folder, p) ==
    [thumbnail |-> PhotoUrl(folder, LowDir, p.webp[1]),
     lightbox  |-> PhotoUrl(folder, LowDir, p.webp[1]),
     original  |-> PhotoUrl(folder, FullDir, p.webp[1] \o <<".">> \o p.ext)]

\* the record of a photo in the new format
structuredPhoto(folder, p) ==
    LET baseName == ReplaceFirst(p.webp[1], DotWebp, <<>>)
    IN  [thumbnail |-> PhotoUrl(folder, LowDir, p.webp[1]),
         lightbox  |-> PhotoUrl(folder, LowDir, p.webp[1]),
         original  |-> PhotoUrl(folder, FullDir, baseName \o <<".">> \o p.ext)]

\* the record of an old photo with the thumbnail taken from full/
legacyPhoto_FromFull(folder, p) ==
    [thumbnail |-> PhotoUrl(folder, FullDir, PhotoString(p)),
     lightbox  |-> PhotoUrl(folder, LowDir, PhotoString(p)),
     original  |-> PhotoUrl(folder, FullDir, PhotoString(p))]

\* the record of a photo in the old format
legacyPhoto(folder, p) ==
    [thumbnail |-> PhotoUrl(folder, LowDir, PhotoString(p)),
     lightbox  |-> PhotoUrl(folder, LowDir, PhotoString(p)),
     original  |-> PhotoUrl(folder, FullDir, PhotoString(p))]

\* the function loadPhotos maps over currentAlbum.photos
photoRecord(folder, p) ==
    IF IsStructured(p) THEN structuredPhoto(folder, p) ELSE legacyPhoto(folder, p)

\* the test with the empty list let through
NoPhotos_AbsentOnly(album) == album.photos = <<>>

\* !currentAlbum.photos || currentAlbum.photos.length === 0
NoPhotos(album) == IF album.photos = <<>> THEN TRUE ELSE album.photos[1] = <<>>

\* displayError: the error panel takes the place of the grid's content, the
\* header says so
displayError ==
    /\ photoGrid' = [error |-> TRUE, thumbnails |-> <<>>]
    /\ albumNameText' = << <<"Error Loading Album">> >>

\* createPhotoThumbnail
createPhotoThumbnail(p) == [href |-> p.lightbox, dataOriginal |-> p.original, src |-> p.thumbnail]

\* initAlbumView without an album parameter
ViewNoAlbum ==
    /\ viewPc = "start"
    /\ albumFolder = <<>>
    /\ displayError
    /\ viewPc' = "done"
    /\ UNCHANGED <<albumFolder, dataJson, currentAlbum, albumPhotos, lightboxInitialised,
                   scriptVars, snakeVars, clientVars, boxVars, nginxVars>>

\* loadAlbum throws: the fetch failed or the body does not parse
loadAlbumFails ==
    /\ viewPc = "start"
    /\ albumFolder # <<>>
    /\ ~dataJson.ok \/ ~dataJson.json
    /\ displayError
    /\ viewPc' = "done"
    /\ UNCHANGED <<albumFolder, dataJson, currentAlbum, albumPhotos, lightboxInitialised,
                   scriptVars, snakeVars, clientVars, boxVars, nginxVars>>

\* loadAlbum returns
loadAlbum ==
    /\ viewPc = "start"
    /\ albumFolder # <<>>
    /\ dataJson.ok /\ dataJson.json
    /\ currentAlbum' = << [name |-> dataJson.name, photos |-> dataJson.photos,
                           folderName |-> albumFolder[1]] >>
    /\ viewPc' = "loadPhotos"
    /\ UNCHANGED <<albumFolder, dataJson, albumPhotos, albumNameText, photoGrid,
                   lightboxInitialised, scriptVars, snakeVars, clientVars, boxVars, nginxVars>>

\* loadPhotos throws: no photos in the album data
loadPhotosFails ==
    /\ viewPc = "loadPhotos"
    /\ NoPhotos(currentAlbum[1])
    /\ displayError
    /\ viewPc' = "done"
    /\ UNCHANGED <<albumFolder, dataJson, currentAlbum, albumPhotos, lightboxInitialised,
                   scriptVars, snakeVars, clientVars, boxVars, nginxVars>>

\* loadPhotos returns
loadPhotos ==
    /\ viewPc = "loadPhotos"
    /\ ~NoPhotos(currentAlbum[1])
    /\ albumPhotos' = [i \in DOMAIN currentAlbum[1].photos[1] |->
                          photoRecord(albumFolder[1], currentAlbum[1].photos[1][i])]
    /\ viewPc' = "renderAlbumHeader"
    /\ UNCHANGED <<albumFolder, dataJson, currentAlbum, albumNameText, photoGrid,
                   lightboxInitialised, scriptVars, snakeVars, clientVars, boxVars, nginxVars>>

renderAlbumHeader ==
    /\ viewPc = "renderAlbumHeader"
    /\ albumNameText' = <<currentAlbum[1].name>>
    /\ viewPc' = "renderPhotoGrid"
    /\ UNCHANGED <<albumFolder, dataJson, currentAlbum, albumPhotos, photoGrid,
                   lightboxInitialised, scriptVars, snakeVars, clientVars, boxVars, nginxVars>>

\* renderPhotoGrid: the thumbnails, then the lightbox; the error panel when
\* there is no photo record
renderPhotoGrid ==
    /\ viewPc = "renderPhotoGrid"
    /\ IF Len(albumPhotos) = 0
       THEN displayError /\ UNCHANGED lightboxInitialised
       ELSE /\ photoGrid' = [error |-> FALSE,
                             thumbnails |-> [i \in DOMAIN albumPhotos |->
                                                createPhotoThumbnail(albumPhotos[i])]]
            /\ lightboxInitialised' = TRUE
            /\ UNCHANGED albumNameText
    /\ viewPc' = "done"
    /\ UNCHANGED <<albumFolder, dataJson, currentAlbum, albumPhotos,
                   scriptVars, snakeVars, clientVars, boxVars, nginxVars>>

ViewNext ==
    \/ ViewNoAlbum
    \/ loadAlbumFails
    \/ loadAlbum
    \/ loadPhotosFails
    \/ loadPhotos
    \/ renderAlbumHeader
    \/ renderPhotoGrid

ViewSpec == ViewInit /\ [][ViewNext]_vars

(***************************************************************************)
(* The lightbox of the album page.  GLightbox tells the page when it       *)
(* opens, when its slide has changed and when it closes; the handlers of   *)
(* initLightbox put the download/share controls into the document and take *)
(* them out.  The handler of slide_changed defers its work by two          *)
(* animation frames.  A waiting callback is a record                       *)
(*   stage : 1 for the outer callback, 2 for the inner one                 *)
(*   slide : the index of the slide that slide_changed named               *)
(***************************************************************************)
MaxSlides == 3

MaxPending == 2

BoxInit ==
    /\ BoxIdle
    /\ NoSite
    /\ SnakeIdle
    /\ ClientIdle
    /\ ViewIdle
    /\ NginxIdle

\* addDownloadShareButtons(slide) on a document with the containers doc:
\* nothing for a slide without a node that holds .ginner-container, else the
\* first container, if any, gives way to a new one
addDownloadShareButtons(doc, slide, nodeUsable) ==
    IF slide = 0 \/ ~nodeUsable THEN doc
    ELSE Append(IF doc = <<>> THEN doc ELSE Tail(doc), slide)

\* the callbacks of one animation frame, run in order: the inner ones call
\* addDownloadShareButtons
RECURSIVE RunCallbacks(_, _, _)
RunCallbacks(doc, callbacks, nodeUsable) ==
    IF callbacks = <<>> THEN doc
    ELSE RunCallbacks(IF Head(callbacks).stage = 2
                      THEN addDownloadShareButtons(doc, Head(callbacks).slide, nodeUsable)
                      ELSE doc,
                      Tail(callbacks), nodeUsable)

\* the outer callbacks of a frame ask for the inner ones, in order
RECURSIVE Requested(_)
Requested(callbacks) ==
    IF callbacks = <<>> THEN <<>>
    ELSE (IF Head(callbacks).stage = 1
          THEN << [stage |-> 2, slide |-> Head(callbacks).slide] >> ELSE <<>>)
         \o Requested(Tail(callbacks))

\* the visitor opens the lightbox on a photo: the handler of 'open'
OnOpen ==
    /\ ~boxOpen
    /\ boxOpen' = TRUE
    /\ \E i \in 1..MaxSlides :
         /\ activeSlide' = i
         /\ controls' = addDownloadShareButtons(controls, i, TRUE)
    /\ UNCHANGED <<frameCallbacks, scriptVars, snakeVars, clientVars, viewVars, nginxVars>>

\* the lightbox shows another slide: the handler of 'slide_changed'
OnSlideChanged ==
    /\ boxOpen
    /\ Len(frameCallbacks) < MaxPending
    /\ \E i \in 1..MaxSlides :
         /\ activeSlide' = i
         /\ frameCallbacks' = Append(frameCallbacks, [stage |-> 1, slide |-> i])
    /\ UNCHANGED <<boxOpen, controls, scriptVars, snakeVars, clientVars, viewVars, nginxVars>>

\* the visitor closes the lightbox: the handler of 'close'
OnClose ==
    /\ boxOpen
    /\ boxOpen' = FALSE
    /\ controls' = IF controls = <<>> THEN controls ELSE Tail(controls)
    /\ UNCHANGED <<activeSlide, frameCallbacks, scriptVars, snakeVars, clientVars, viewVars, nginxVars>>

\* the browser runs the callbacks that wait for the next animation frame.
\* While the lightbox is open a slide has its node; whether the node of a
\* slide of a closed lightbox still holds .ginner-container is up to
\* GLightbox.
AnimationFrame ==
    /\ frameCallbacks # <<>>
    /\ \E nodeUsable \in (IF boxOpen THEN {TRUE} ELSE BOOLEAN) :
         controls' = RunCallbacks(controls, frameCallbacks, nodeUsable)
    /\ frameCallbacks' = Requested(frameCallbacks)
    /\ UNCHANGED <<boxOpen, activeSlide, scriptVars, snakeVars, clientVars, viewVars, nginxVars>>

BoxNext ==
    \/ OnOpen
    \/ OnSlideChanged
    \/ OnClose
    \/ AnimationFrame

BoxSpec == BoxInit /\ [][BoxNext]_vars

(***************************************************************************)
(* The deployment of the nginx configuration (server/deploy.sh): back up   *)
(* /etc/nginx/nginx.conf, copy the repository's files over it, test with   *)
(* nginx -t, roll back when the test fails, else reload or start nginx.    *)
(* The site file pikapp-photos.conf and its link are left out; what        *)
(* nginx -t says depends on them too, so the model leaves it open.         *)
(***************************************************************************)
MaxDeployRuns == 2

MaxOldBackups == 1

Configs == {"conf1", "conf2"}

RECURSIVE ConfigLists(_)
ConfigLists(n) ==
    IF n = 0 THEN { <<>> }
    ELSE ConfigLists(n - 1)
         \cup { Append(l, c) : l \in {x \in ConfigLists(n - 1) : Len(x) = n - 1}, c \in Configs }

NginxInit ==
    /\ nginxConf \in { <<>> } \cup { <<c>> : c \in Configs }
    /\ backups \in ConfigLists(MaxOldBackups)
    /\ nginxActive \in BOOLEAN
    /\ NginxStarts
    /\ NoSite
    /\ SnakeIdle
    /\ ClientIdle
    /\ ViewIdle
    /\ BoxIdle

\* what the other steps of a run leave alone
NgFrame == UNCHANGED <<repoConf, confBefore, deployRuns, scriptVars, snakeVars, clientVars,
                       viewVars, boxVars>>

\* a run begins
NgBegins ==
    /\ ngPc \in {"idle", "done"}
    /\ deployRuns < MaxDeployRuns
    /\ deployRuns' = deployRuns + 1
    /\ confBefore' = nginxConf
    /\ testVerdict' = "none"
    /\ serviceTouched' = FALSE
    /\ UNCHANGED <<nginxConf, backups, nginxActive, loadedConf, scriptVars, snakeVars,
                   clientVars, viewVars, boxVars>>

\* not run as root, or a configuration file is missing next to the script
NgRefused ==
    /\ NgBegins
    /\ ngPc' = "done"
    /\ ngExit' = 1
    /\ UNCHANGED repoConf

\* step 1 passes
NgValidated ==
    /\ NgBegins
    /\ repoConf' \in { <<c>> : c \in Configs }
    /\ ngPc' = "backup"
    /\ ngExit' = -1

\* step 2: cp /etc/nginx/nginx.conf /etc/nginx/nginx.conf.backup.$(date ...)
NgBackup ==
    /\ ngPc = "backup"
    /\ backups' = IF nginxConf # <<>> THEN Append(backups, nginxConf[1]) ELSE backups
    /\ ngPc' = "copy"
    /\ UNCHANGED <<nginxConf, nginxActive, loadedConf, ngExit, testVerdict, serviceTouched>>
    /\ NgFrame

\* step 3: cp "$SCRIPT_DIR/nginx.conf" /etc/nginx/nginx.conf
NgCopy ==
    /\ ngPc = "copy"
    /\ nginxConf' = repoConf
    /\ ngPc' = "test"
    /\ UNCHANGED <<backups, nginxActive, loadedConf, ngExit, testVerdict, serviceTouched>>
    /\ NgFrame

\* step 5: nginx -t accepts the files
NgTestPasses ==
    /\ ngPc = "test"
    /\ testVerdict' = "ok"
    /\ ngPc' = "reload"
    /\ UNCHANGED <<nginxConf, backups, nginxActive, loadedConf, ngExit, serviceTouched>>
    /\ NgFrame

\* [ -f /etc/nginx/nginx.conf.backup.* ]: the pattern expands to the files
\* that match; with none, -f sees the pattern itself; with one, the file;
\* with more, [ has too many arguments and fails
BackupTest(files) == Len(files) = 1

\* ls -t ... | head -1: the newest
LatestBackup(files) == files[Len(files)]

\* step 5: nginx -t rejects the files; the rollback, exit 1
NgTestFails ==
    /\ ngPc = "test"
    /\ testVerdict' = "failed"
    /\ nginxConf' = IF BackupTest(backups) THEN <<LatestBackup(backups)>> ELSE nginxConf
    /\ ngPc' = "done"
    /\ ngExit' = 1
    /\ UNCHANGED <<backups, nginxActive, loadedConf, serviceTouched>>
    /\ NgFrame

\* step 6: nginx is active: systemctl reload nginx
NgReload ==
    /\ ngPc = "reload"
    /\ nginxActive
    /\ loadedConf' = nginxConf
    /\ serviceTouched' = TRUE
    /\ ngPc' = "done"
    /\ ngExit' = 0
    /\ UNCHANGED <<nginxConf, backups, nginxActive, testVerdict>>
    /\ NgFrame

\* step 6: nginx is not active: systemctl start nginx
NgStartService ==
    /\ ngPc = "reload"
    /\ ~nginxActive
    /\ nginxActive' = TRUE
    /\ loadedConf' = nginxConf
    /\ serviceTouched' = TRUE
    /\ ngPc' = "done"
    /\ ngExit' = 0
    /\ UNCHANGED <<nginxConf, backups, testVerdict>>
    /\ NgFrame

NginxNext ==
    \/ NgRefused
    \/ NgValidated
    \/ NgBackup
    \/ NgCopy
    \/ NgTestPasses
    \/ NgTestFails
    \/ NgReload
    \/ NgStartService

NginxSpec == NginxInit /\ [][NginxNext]_vars

(***************************************************************************)
(* Properties.                                                             *)
(***************************************************************************)
\* a file name with the extension jpg, jpeg or png, in any case
HasImageExtension(name) ==
    /\ "." \in Range(name)
    /\ TrLower(AfterLastDot(name)) \in { <<"j","p","g">>, <<"j","p","e","g">>, <<"p","n","g">> }

\* the image files directly inside a directory
ImageFiles(d) == {x \in DOMAIN d.root : HasImageExtension(x)}

\* the album process_album has just finished, where it now lies
publishedAlbum == DirAt(fs, pubPath)

\* C1: when process_album has finished on an album that was raw and held N >= 1
\* image files, the album has a complete data.json, low/ and full/ hold exactly
\* N files each, data.json lists N photos, coverPhoto is the webp name of one
\* of them, and no image file is left in the album root.
C1_PublishResult ==
    (pubPath # <<>> /\ wasRaw) =>
        LET d == publishedAlbum
            N == Cardinality(ImageFiles(before[1]))
        IN  /\ N >= 1
            /\ HasData(d) /\ d.data[1].written
            /\ HasLow(d) /\ Cardinality(DOMAIN d.low[1]) = N
            /\ HasFull(d) /\ Cardinality(DOMAIN d.full[1]) = N
            /\ Len(d.data[1].photos) = N
            /\ \E i \in 1..N : d.data[1].coverPhoto = d.data[1].photos[i].webp
            /\ ImageFiles(d) = {}

\* a raw album with at least two photos, one of them with an upper-case
\* extension, has been published
C1_Witness ==
    /\ pubPath # <<>>
    /\ wasRaw
    /\ Cardinality(ImageFiles(before[1])) >= 2
    /\ \E x \in ImageFiles(before[1]) : AfterLastDot(x) # TrLower(AfterLastDot(x))

\* C7: when process_album has finished on a raw album with the source files
\* photo_files (in the order find listed them), the i-th record of data.json
\* is {webp: folder_i.webp, ext: lower-cased extension of the i-th file}, low/
\* holds exactly the files folder_i.webp, each scaled from the i-th file, and
\* full/ holds exactly the files folder_i.ext, each with the bytes of the i-th
\* file, for i = 1..N.
C7_IndexedOutputs ==
    (pubPath # <<>> /\ wasRaw) =>
        LET d         == publishedAlbum
            N         == Len(photo_files)
            ext(i)    == TrLower(AfterLastDot(photo_files[i]))
            base(i)   == snake_album_name \o <<"_">> \o Decimal(i)
            webp(i)   == base(i) \o <<".","w","e","b","p">>
            orig(i)   == base(i) \o <<".">> \o ext(i)
        IN  /\ Len(d.data[1].photos) = N
            /\ DOMAIN d.low[1] = {webp(i) : i \in 1..N}
            /\ DOMAIN d.full[1] = {orig(i) : i \in 1..N}
            /\ \A i \in 1..N :
                 /\ d.data[1].photos[i] = [webp |-> webp(i), ext |-> ext(i)]
                 /\ d.low[1][webp(i)] = before[1].root[photo_files[i]]
                 /\ d.full[1][orig(i)] = before[1].root[photo_files[i]]

\* a raw album has been published whose files find listed in another order
\* than by name
C7_Witness ==
    /\ pubPath # <<>>
    /\ wasRaw
    /\ Len(photo_files) >= 2
    /\ photo_files[1] = PhotoFileName(2)
    /\ photo_files[2] = PhotoFileName(1)

\* C8: process_album on a directory without an image file is skipped and
\* changes nothing: the tree under public/albums and albums.json stay as they
\* are.
C8_EmptyAlbumUntouched ==
    [][ (pc = "up_loop" /\ pc' # "idle" /\ ImageFiles(fs[album_array[loopIdx]]) = {})
          => (fs' = fs /\ manifest' = manifest /\ report' = "skipped") ]_vars

\* a directory that holds a file, but no image file, has been skipped
C8_Witness ==
    /\ report = "skipped"
    /\ pc \in {"up_loop", "up_manifest"}
    /\ album_path \in DOMAIN fs
    /\ DOMAIN fs[album_path].root # {}
    /\ ImageFiles(fs[album_path]) = {}

\* a reset has just gone through on an album as the publication of a raw
\* album had left it
resetOfPublication ==
    /\ pc = "idle"
    /\ report = "reset_done"
    /\ resetProv # <<>>
    /\ resetProv[1].fromRaw

\* the name reset gives back to the i-th photo of a publication
RestoredName(p, i) == p.snake \o <<"_">> \o Decimal(i) \o <<".">> \o p.src[i].ext

\* C2 as stated: after reset of a published album with N source photos the
\* album is raw and its root holds exactly N files, the i-th original under
\* the name folder_i.ext.
C2_ExactlyNFiles ==
    resetOfPublication =>
        LET d == fs[command[2]]
            p == resetProv[1]
            N == Len(p.src)
        IN  /\ IsRaw(d)
            /\ Cardinality(DOMAIN d.root) = N
            /\ \A i \in 1..N :
                 /\ RestoredName(p, i) \in DOMAIN d.root
                 /\ d.root[RestoredName(p, i)] = p.src[i].bytes

\* C2 amended: after reset of a published album with N source photos the
\* album is raw, the image files of its root are exactly the N files
\* folder_i.ext, the i-th with the bytes of the i-th original, and the other
\* files of the root are those that were there before publish, unchanged.
C2_PhotosRestored ==
    resetOfPublication =>
        LET d == fs[command[2]]
            p == resetProv[1]
            N == Len(p.src)
        IN  /\ IsRaw(d)
            /\ ImageFiles(d) = {RestoredName(p, i) : i \in 1..N}
            /\ Cardinality(ImageFiles(d)) = N
            /\ \A i \in 1..N : d.root[RestoredName(p, i)] = p.src[i].bytes
            /\ [x \in DOMAIN d.root \ ImageFiles(d) |-> d.root[x]] = p.rest

\* a published album whose root held a file that is no photo has been reset
C2_Witness ==
    /\ resetOfPublication
    /\ resetProv[1].rest # NoFiles
    /\ Len(resetProv[1].src) >= 1

\* an album directory rests in one of its two states
RawOrPublished(d) == IsRaw(d) \/ IsPublished(d)

\* C3: when no script runs and no run has ended with a failure, every album
\* directory (also one that a rename moved into another album) is raw or
\* published.
C3_RawOrPublished ==
    (pc = "idle" /\ ~everFailed) =>
        \A n \in DOMAIN fs :
            /\ RawOrPublished(fs[n])
            /\ \A m \in DOMAIN fs[n].sub : RawOrPublished(fs[n].sub[m])

\* an album has been published and reset again, without any failure
C3_Witness ==
    /\ pc = "idle"
    /\ ~everFailed
    /\ runs >= 2
    /\ report = "reset_done"
    /\ IsRaw(fs[command[2]])
    /\ \E n \in DOMAIN fs : n # command[2]

\* the directories directly under public/albums that hold a data.json
AlbumsWithData == {n \in DOMAIN fs : fs[n].data # <<>>}

\* C4: when upload.sh has reached its end, albums.json lists exactly the
\* directories under public/albums that hold a data.json, each once.
C4_ManifestAfterUpload ==
    (pc = "idle" /\ report = "upload_done") =>
        /\ manifest # <<>>
        /\ Range(manifest[1]) = AlbumsWithData
        /\ Len(manifest[1]) = Cardinality(AlbumsWithData)

\* upload.sh has ended with a published album listed and another directory
\* left out
C4_Witness ==
    /\ pc = "idle"
    /\ report = "upload_done"
    /\ AlbumsWithData # {}
    /\ DOMAIN fs \ AlbumsWithData # {}

\* C5: after a reset that went through, albums.json does not list the album
\* that was reset.
C5_ManifestRebuiltByReset ==
    (pc = "idle" /\ report = "reset_done") =>
        (manifest = <<>> \/ command[2] \notin Range(manifest[1]))

\* C6: when the album directory folder is published again under the display
\* name of its earlier publication, every base name folder_i that both
\* publications assign names the same photo.
C6_BaseNameStable ==
    [][ (/\ pc = "up_rename"
         /\ pc' \in {"up_loop", "up_manifest"}
         /\ album_path = snake_album_name
         /\ snake_album_name \in DOMAIN prov
         /\ album_name = <<"A"," ","b","!">>)
          => \A i \in DOMAIN photo_files \cap DOMAIN prov[snake_album_name].src :
                prov[snake_album_name].src[i].bytes = srcBytes[i] ]_vars

\* C9: reset on an album that has a data.json but no full/ ends at once with
\* a non-zero status and changes nothing.
C9_RefusesWithoutFull ==
    [][ \A n \in ResetArguments :
          (/\ pc = "idle"
           /\ command' = <<"reset", n>>
           /\ dirExists /\ n \in DOMAIN fs
           /\ fs[n].data # <<>>
           /\ fs[n].full = <<>>)
            => (/\ pc' = "idle"
                /\ exitStatus' # 0
                /\ fs' = fs
                /\ manifest' = manifest) ]_vars

\* reset has refused an album with data.json and without full/
C9_Witness ==
    /\ pc = "idle"
    /\ command # <<>> /\ command[1] = "reset"
    /\ report = "missing_full"
    /\ exitStatus = 1
    /\ fs[command[2]].data # <<>>
    /\ fs[command[2]].full = <<>>

\* C10: reset on an existing album directory without data.json reports that
\* the album is already in its original state, ends with status 0 and
\* changes nothing, whatever the directory holds.
C10_AlreadyRawNoOp ==
    [][ \A n \in ResetArguments :
          (/\ pc = "idle"
           /\ command' = <<"reset", n>>
           /\ dirExists /\ n \in DOMAIN fs
           /\ fs[n].data = <<>>)
            => (/\ pc' = "idle"
                /\ exitStatus' = 0
                /\ report' = "already_raw"
                /\ fs' = fs
                /\ manifest' = manifest) ]_vars

\* reset has left alone a directory without data.json that holds low/ or full/
C10_Witness ==
    /\ pc = "idle"
    /\ command # <<>> /\ command[1] = "reset"
    /\ report = "already_raw"
    /\ exitStatus = 0
    /\ fs[command[2]].data = <<>>
    /\ (fs[command[2]].low # <<>> \/ fs[command[2]].full # <<>>)

\* C11: a reset run changes nothing under public/albums (nor albums.json)
\* while it checks, asks and waits for the answer, and a run whose answer is
\* neither y nor Y ends there, with everything as it was.
C11_NothingBeforeYes ==
    [][ /\ ((pc = "idle" /\ command' # <<>> /\ command'[1] = "reset") \/ pc = "rs_confirm")
            => (fs' = fs /\ manifest' = manifest)
        /\ (pc = "rs_confirm" /\ confirm' \notin {"y", "Y"})
            => (pc' = "idle" /\ fs' = fs /\ manifest' = manifest) ]_vars

\* the operator has answered something else than y to the question about a
\* published album, which is still published
C11_Witness ==
    /\ pc = "idle"
    /\ report = "cancelled"
    /\ exitStatus = 0
    /\ confirm = "yes"
    /\ IsPublished(fs[command[2]])

\* C12: when ffmpeg fails on a photo or the mv of the album directory fails,
\* the run ends at that step with a non-zero status, albums.json stays as it
\* is and the albums still pending stay as they are, unprocessed; when it is ffmpeg that fails, the photo it failed on and the
\* photos after it are still in the album root, the album has no data.json
\* and still has the name it had.
C12_FailFast ==
    [][ /\ (pc \in {"up_ffmpeg", "up_rename"} /\ report' \in {"ffmpeg_failed", "mv_failed"})
            => /\ pc' = "idle"
               /\ exitStatus' # 0
               /\ manifest' = manifest
               /\ \A j \in (loopIdx + 1)..Len(album_array) :
                     /\ album_array[j] \in DOMAIN fs'
                     /\ fs'[album_array[j]] = fs[album_array[j]]
                     /\ ~HasData(fs'[album_array[j]])
        /\ (pc = "up_ffmpeg" /\ report' = "ffmpeg_failed")
            => /\ album_path \in DOMAIN fs'
               /\ ~HasData(fs'[album_path])
               /\ \A k \in index..Len(photo_files) :
                     /\ photo_files[k] \in DOMAIN fs'[album_path].root
                     /\ fs'[album_path].root[photo_files[k]] = srcBytes[k] ]_vars

\* ffmpeg has failed on the photo of album New while album a_b was pending
\* behind it: New keeps its photo and has no data.json, a_b is still raw
C12_Witness ==
    /\ pc = "idle"
    /\ report = "ffmpeg_failed"
    /\ exitStatus = 1
    /\ NewDir \in DOMAIN fs /\ SnakeDir \in DOMAIN fs
    /\ HasFull(fs[NewDir]) /\ ~HasData(fs[NewDir])
    /\ ImageFiles(fs[NewDir]) # {}
    /\ IsRaw(fs[SnakeDir])
    /\ Cardinality(ImageFiles(fs[SnakeDir])) >= 2

\* C13: at every moment, whoever reads the data.json of an album directory
\* finds no file or a complete one, never a file that is only partly written.
C13_DataJsonNeverPartial ==
    \A n \in DOMAIN fs :
        /\ HasData(fs[n]) => fs[n].data[1].written
        /\ \A m \in DOMAIN fs[n].sub :
              HasData(fs[n].sub[m]) => fs[n].sub[m].data[1].written

\* the whitespace characters a name may hold
IsWhitespace(c) == c \in {" ", "\t"}

\* every run of whitespace becomes one underscore
RECURSIVE CollapseWhitespace(_, _)
CollapseWhitespace(s, afterWhitespace) ==
    IF s = <<>> THEN <<>>
    ELSE IF IsWhitespace(s[1])
         THEN (IF afterWhitespace THEN <<>> ELSE <<"_">>) \o CollapseWhitespace(Tail(s), TRUE)
         ELSE <<s[1]>> \o CollapseWhitespace(Tail(s), FALSE)

\* the normal form of a display name: lower-cased, whitespace collapsed to
\* underscore, every other character that is no letter or digit deleted
NormalForm(s) == SelectSeq(CollapseWhitespace(TrLower(s), FALSE), IsAlnumUnderscore)

\* C14: what to_snake_case prints for a name is the name lower-cased, with
\* every run of whitespace collapsed to one underscore, without any other
\* character that is no letter, digit or underscore.
C14_SnakeCaseIsNormalForm ==
    snakeOut # <<>> => snakeOut[1] = NormalForm(snakeArg)

\* a published album directory carries the folder name of the display name
\* in its data.json, and its photo records are named after it
NamedAfterDisplayName(name, d) ==
    /\ name # <<>>
    /\ name = to_snake_case(d.data[1].name)
    /\ \A i \in DOMAIN d.data[1].photos :
          d.data[1].photos[i].webp = name \o <<"_">> \o Decimal(i) \o <<".","w","e","b","p">>

\* C15: when no script runs and no run has ended with a failure, every
\* published album directory (also one that a rename moved into another
\* album) has a non-empty name, which is the normal form of the name in its
\* data.json, and its i-th photo record has the webp name {directory}_{i}.webp.
C15_FolderNameMatchesData ==
    (pc = "idle" /\ ~everFailed) =>
        \A n \in DOMAIN fs :
            /\ IsPublished(fs[n]) => NamedAfterDisplayName(n, fs[n])
            /\ \A m \in DOMAIN fs[n].sub :
                  IsPublished(fs[n].sub[m]) => NamedAfterDisplayName(m, fs[n].sub[m])

\* C16: when process_album comes to its rename and the folder name is the
\* name of another directory that exists, that directory stays exactly as it
\* is and the album stays where it is, under its own name.
C16_ConflictLeftToOperator ==
    [][ (/\ pc = "up_rename"
         /\ album_path # snake_album_name
         /\ snake_album_name \in DOMAIN fs)
          => (/\ snake_album_name \in DOMAIN fs'
              /\ fs'[snake_album_name] = fs[snake_album_name]
              /\ album_path \in DOMAIN fs'
              /\ fs'[album_path] = fs[album_path]) ]_vars

\* C17: a call of generate_albums_manifest changes nothing but albums.json,
\* and a second call right after it would write what the first one wrote.
C17_ManifestIdempotent ==
    [][ (pc = "up_manifest" /\ pc' = "up_deploy")
          => (/\ fs' = fs
              /\ dirExists' = dirExists
              /\ manifest' = (generate_albums_manifest(fs))') ]_vars

\* generate_albums_manifest has just listed two albums
C17_Witness ==
    /\ pc = "up_deploy"
    /\ manifest # <<>>
    /\ Len(manifest[1]) = 2

\* the positions in albums.json of the albums whose metadata loads
LoadedAlbums ==
    {i \in DOMAIN served.albums :
        served.data[served.albums[i]].ok /\ served.data[served.albums[i]].json}

\* the position in albums.json of an album of the listing
ManifestPosition(album) == CHOOSE i \in DOMAIN served.albums : served.albums[i] = album.folderName

\* a date <<year, month, day>> is later than another
LaterDate(d, e) ==
    \/ d[1] > e[1]
    \/ (d[1] = e[1] /\ d[2] > e[2])
    \/ (d[1] = e[1] /\ d[2] = e[2] /\ d[3] > e[3])

\* the listing holds the albums whose metadata loaded, each once, each with
\* its date and with its name in albums.json as folderName
HoldsLoadedAlbums ==
    /\ Len(albumsData) = Cardinality(LoadedAlbums)
    /\ \A i \in LoadedAlbums :
          \E k \in DOMAIN albumsData :
              albumsData[k] = [folderName |-> served.albums[i],
                               date |-> served.data[served.albums[i]].date]

\* C18: whatever albums.json names and whichever of the metadata fetches
\* fail, once loadAlbums has returned the listing holds exactly the albums
\* whose metadata loaded, each once and with its folderName, no album before
\* one of a later date, and no error is ever shown on the page.
C18_ListsLoadedAlbums ==
    served.found =>
        /\ ~errorShown
        /\ clientPc \in {"loaded", "rendered"} =>
              /\ HoldsLoadedAlbums
              /\ \A k, l \in DOMAIN albumsData :
                    k < l => ~LaterDate(albumsData[l].date, albumsData[k].date)

\* three albums, the metadata of the second no JSON, the first older than
\* the third: the listing is the third, then the first
C18_Witness ==
    /\ clientPc = "loaded"
    /\ Len(served.albums) = 3
    /\ served.data[FolderName(2)].ok /\ ~served.data[FolderName(2)].json
    /\ 1 \in LoadedAlbums /\ 3 \in LoadedAlbums
    /\ LaterDate(served.data[FolderName(3)].date, served.data[FolderName(1)].date)
    /\ Len(albumsData) = 2
    /\ albumsData[1].folderName = FolderName(3)

\* C19: the listing is not built before every fetch has settled, and it is
\* the loaded albums in an order that the site alone decides, whatever the
\* order in which the fetches settled: later dates first, albums of the same
\* date in the order of albums.json.
C19_OrderIndependent ==
    /\ clientPc \in {"start", "fetching"} => albumsData = <<>>
    /\ clientPc \in {"loaded", "rendered"} =>
          /\ \A i \in DOMAIN results : results[i].done
          /\ HoldsLoadedAlbums
          /\ \A k, l \in DOMAIN albumsData :
                k < l => \/ LaterDate(albumsData[k].date, albumsData[l].date)
                         \/ /\ albumsData[k].date = albumsData[l].date
                            /\ ManifestPosition(albumsData[k]) < ManifestPosition(albumsData[l])

\* the fetches have settled in another order than that of albums.json, the
\* last album first, and two albums of the same date are listed
C19_Witness ==
    /\ clientPc = "loaded"
    /\ Len(settled) = 3
    /\ settled[1] = 3
    /\ settled[2] = 1
    /\ Len(albumsData) >= 2
    /\ albumsData[1].date = albumsData[2].date

\* C20: on a site without albums.json the page shows no error, and once it
\* has gone through its loading it shows an empty album grid.
C20_AbsentManifestIsEmpty ==
    ~served.found =>
        /\ ~errorShown
        /\ clientPc # "start" => (clientPc \in {"loaded", "rendered"} /\ albumsData = <<>> /\ grid = <<>>)

\* the album a selection stands for, <<>> when it stands for none: the k-th
\* of the listing, or the directory of that name
SelectedAlbum(tree, exists, typed) ==
    LET albums == list_albums(tree, exists)
    IN  IF ~exists THEN <<>>
        ELSE IF IsNumber(typed)
        THEN IF NumberValue(typed) \in 1..Len(albums)
             THEN <<albums[NumberValue(typed)]>> ELSE <<>>
        ELSE IF typed \in DOMAIN tree THEN <<typed>> ELSE <<>>

\* C24: reset-album.sh run without an argument, the operator enters the
\* number of a listed album or the name of an album: reset_album is applied
\* to that album, so the run does not end with "Album not found".
C24_SelectionIsReset ==
    [][ \A typed \in Selections :
          ( /\ pc = "idle"
            /\ command' = <<"reset">>
            /\ selection' = <<typed>>
            /\ SelectedAlbum(fs, dirExists, typed) # <<>> )
          => report' # "not_found" ]_vars

\* something the command line cmd needs is missing: ffmpeg or public/albums
\* for upload.sh, public/albums or the named album for reset-album.sh
MissingPrerequisite(cmd) ==
    \/ cmd = <<"upload">> /\ (~ffmpegInstalled \/ ~dirExists)
    \/ cmd # <<>> /\ cmd[1] = "reset" /\ ~dirExists
    \/ Len(cmd) = 2 /\ cmd[1] = "reset" /\ cmd[2] \notin DOMAIN fs

\* C25: a command started while something it needs is missing exits with a
\* non-zero status and has created, moved and deleted nothing.
C25_MissingPrerequisiteRefused ==
    [][ (pc = "idle" /\ MissingPrerequisite(command'))
        => ( /\ pc' = "idle"
             /\ exitStatus' > 0
             /\ fs' = fs
             /\ dirExists' = dirExists
             /\ manifest' = manifest ) ]_vars

\* the byte contents of the photos a directory holds in its root or in full/
DirPhotoBytes(d) ==
    {d.root[x] : x \in ImageFiles(d)}
    \cup (IF d.full = <<>> THEN {} ELSE {d.full[1][x] : x \in DOMAIN d.full[1]})

\* the same for all of public/albums, albums moved into an album included
TreePhotoBytes(tree) ==
    UNION { DirPhotoBytes(tree[n])
            \cup UNION {DirPhotoBytes(tree[n].sub[m]) : m \in DOMAIN tree[n].sub} :
            n \in DOMAIN tree }

\* C26: no step of an upload.sh run, in a first run or in a re-run after an
\* aborted one, loses the byte content of a photo: what the album roots and
\* the full/ directories held before the step, they hold after it.
C26_PhotoBytesKept ==
    [][ command' = <<"upload">> => TreePhotoBytes(fs) \subseteq TreePhotoBytes(fs') ]_vars

\* C29: no step of an upload.sh run changes an album that has a data.json,
\* the album that process_album is just finishing apart: the album is still
\* there under its name, with the same data.json and the same low/ and full/.
C29_PublishedAlbumsUntouched ==
    [][ command' = <<"upload">> =>
          \A n \in DOMAIN fs :
              (HasData(fs[n]) /\ ~(n = album_path /\ pc \in {"up_cat", "up_rename"}))
              => ( /\ n \in DOMAIN fs'
                   /\ fs'[n].data = fs[n].data
                   /\ fs'[n].low = fs[n].low
                   /\ fs'[n].full = fs[n].full ) ]_vars

\* an upload.sh run is at its last step, having published the pending album
\* New under the name of the album a_b, which an earlier run had published
C29_Witness ==
    /\ pc = "up_deploy"
    /\ SnakeDir \in DOMAIN fs
    /\ HasData(fs[SnakeDir])
    /\ fs[SnakeDir].data[1].date = 20231231
    /\ NewDir \in DOMAIN fs[SnakeDir].sub
    /\ HasData(fs[SnakeDir].sub[NewDir])

\* the album's metadata could not be fetched or parsed, or its photos list
\* is absent or empty
MetadataUnusable ==
    \/ ~dataJson.ok
    \/ ~dataJson.json
    \/ dataJson.photos = <<>>
    \/ dataJson.photos[1] = <<>>

\* the header shows an album name, not the error text
HeaderRendered ==
    albumNameText # <<>> /\ albumNameText # << <<"Error Loading Album">> >>

\* C21: on the album page, when the metadata cannot be fetched or parsed or
\* lists no photo, no thumbnail is ever rendered and the lightbox is never
\* initialised, and the page ends with the error panel; the header and the
\* grid are rendered only when the metadata and the photo records are loaded.
C21_ViewFailsAsAWhole ==
    /\ (albumFolder # <<>> /\ MetadataUnusable) =>
          /\ photoGrid.thumbnails = <<>>
          /\ ~lightboxInitialised
          /\ ~HeaderRendered
          /\ viewPc = "done" => photoGrid.error
    /\ (HeaderRendered \/ photoGrid.thumbnails # <<>> \/ lightboxInitialised) =>
          /\ currentAlbum # <<>>
          /\ albumPhotos # <<>>
          /\ Len(albumPhotos) = Len(dataJson.photos[1])

\* the page has ended on a data.json that parses and has an empty photos list
C21_Witness ==
    /\ viewPc = "done"
    /\ dataJson.ok /\ dataJson.json
    /\ dataJson.photos = << <<>> >>
    /\ photoGrid.error

\* a name without its ending
StripSuffix(s, suffix) == SubSeq(s, 1, Len(s) - Len(suffix))

\* C22: the photo records loadPhotos builds are, record by record, those the
\* data.json lists: a structured record {webp: B.webp, ext} gives
\* albums/F/low/B.webp for thumbnail and lightbox and albums/F/full/B.ext for
\* the download, a bare file name f gives albums/F/low/f and albums/F/full/f.
C22_UrlDerivation ==
    viewPc \in {"renderAlbumHeader", "renderPhotoGrid", "done"} /\ albumPhotos # <<>> =>
        /\ Len(albumPhotos) = Len(dataJson.photos[1])
        /\ \A i \in DOMAIN albumPhotos :
             LET r == dataJson.photos[1][i]
                 F == albumFolder[1]
             IN  /\ (r.object /\ r.webp # <<>> /\ HasSuffix(r.webp[1], DotWebp)) =>
                       LET B == StripSuffix(r.webp[1], DotWebp)
                       IN  /\ albumPhotos[i].thumbnail = PhotoUrl(F, LowDir, B \o DotWebp)
                           /\ albumPhotos[i].lightbox = PhotoUrl(F, LowDir, B \o DotWebp)
                           /\ albumPhotos[i].original = PhotoUrl(F, FullDir, B \o <<".">> \o r.ext)
                 /\ ~r.object =>
                       /\ albumPhotos[i].thumbnail = PhotoUrl(F, LowDir, r.webp[1])
                       /\ albumPhotos[i].original = PhotoUrl(F, FullDir, r.webp[1])

\* the records of a bare file name and then of a structured photo with
\* another name have been built and rendered
C22_Witness ==
    /\ viewPc = "done"
    /\ Len(albumPhotos) = 2
    /\ ~dataJson.photos[1][1].object
    /\ IsStructured(dataJson.photos[1][2])
    /\ dataJson.photos[1][2].webp # dataJson.photos[1][1].webp
    /\ Len(photoGrid.thumbnails) = 2

\* the photos at i and j of the data.json are the bare name and the
\* structured record of one webp file
SameFile(i, j) ==
    LET l == dataJson.photos[1][i]
        s == dataJson.photos[1][j]
    IN  ~l.object /\ IsStructured(s) /\ l.webp = s.webp

\* C23 as stated: the bare name and the structured record of one file give
\* equal photo records.
C23_DecodeEquivalent ==
    albumPhotos # <<>> =>
        \A i, j \in DOMAIN albumPhotos : SameFile(i, j) => albumPhotos[i] = albumPhotos[j]

\* C23: the bare name f and the structured record {webp: f, ext} of one file
\* give the same thumbnail and the same lightbox reference; the download is
\* albums/F/full/f for the bare name, and the two downloads are the same only
\* when ext is webp.
C23_DecodeSameView ==
    albumPhotos # <<>> =>
        \A i, j \in DOMAIN albumPhotos :
            SameFile(i, j) =>
                /\ albumPhotos[i].thumbnail = albumPhotos[j].thumbnail
                /\ albumPhotos[i].lightbox = albumPhotos[j].lightbox
                /\ albumPhotos[i].original
                     = PhotoUrl(albumFolder[1], FullDir, dataJson.photos[1][i].webp[1])
                /\ (albumPhotos[i].original = albumPhotos[j].original)
                     <=> (dataJson.photos[1][j].ext = <<"w","e","b","p">>)

\* a data.json lists one file by its bare name and as {webp, ext: jpg}, and
\* both records are built
C23_Witness ==
    /\ Len(albumPhotos) = 2
    /\ SameFile(1, 2)
    /\ dataJson.photos[1][2].ext = <<"j","p","g">>

\* loadAlbums: fetch(`albums/${albumName}.json`)
listingFetchPath(albumName) ==
    <<"a","l","b","u","m","s","/">> \o albumName \o <<".","j","s","o","n">>

\* loadAlbum of the album page: fetch(`albums/${albumFolder}/data.json`)
detailFetchPath(folder) ==
    <<"a","l","b","u","m","s","/">> \o folder
    \o <<"/","d","a","t","a",".","j","s","o","n">>

\* where process_album writes an album's metadata, "${album_path}data.json"
\* with album_path = public/albums/X/, seen from the pages in public/
publishedDataPath(X) ==
    LET written == <<"p","u","b","l","i","c","/","a","l","b","u","m","s","/">> \o X
                   \o <<"/">> \o <<"d","a","t","a",".","j","s","o","n">>
    IN  SubSeq(written, Len(<<"p","u","b","l","i","c","/">>) + 1, Len(written))

\* C27: for every album the manifest lists, the listing page fetches the
\* metadata at the path at which publish wrote it, which is also the path
\* the album page reads.
C27_ListingReadsPublishedMetadata ==
    (clientPc # "start" /\ served.found) =>
        \A i \in DOMAIN served.albums :
            /\ listingFetchPath(served.albums[i]) = publishedDataPath(served.albums[i])
            /\ listingFetchPath(served.albums[i]) = detailFetchPath(served.albums[i])

\* C28: in the lightbox, a closed lightbox has no download/share control
\* container left in the document, whatever the order of the events and the
\* animation frames; and the document never holds more than one.
C28_NoControlsOnceClosed ==
    /\ ~boxOpen => controls = <<>>
    /\ Len(controls) <= 1

\* a run in which nginx -t rejected the files has ended
TestFailed == ngPc = "done" /\ testVerdict = "failed"

====
